---------------------------- MODULE Spec2Model ----------------------------
(***************************************************************************)
(* Model of the Wukong scheduling core.                                    *)
(*                                                                         *)
(*   wukong-dist/runtime/scheduler.py   Scheduler: the task graph (DAG)    *)
(*   wukong-dist/runtime/cli.py         retry_node: the retry handler      *)
(*   wukong-dist/runtime/state_manager.py, event_bus.py: the documents     *)
(*                                      retry_node writes                  *)
(*   .wukong/scheduler/scheduler.py     WukongScheduler: admission control *)
(*                                      (tiers and territories)            *)
(***************************************************************************)
EXTENDS Integers, Sequences, FiniteSets, TLC

VARIABLES
    taskgraph,      \* taskgraph.json / the graph dict handed to Scheduler: <<>> or <<graph>>
    graph_counter,  \* number of graph ids generated so far (stands for uuid4)
    state_file,     \* state.json: <<>> (absent) or <<content>>
    state_write,    \* the _atomic_write in flight: <<>> or <<its temp file and data>>
    events_file,    \* events.jsonl: the sequence of appended events
    tasks,          \* WukongScheduler.tasks, in insertion order
    territories,    \* WukongScheduler.territories: key -> Territory
    active_by_tier, \* WukongScheduler.active_by_tier: tier -> list of task ids
    now,            \* datetime.now(timezone.utc), in seconds
    procs,          \* the processes inside a call on state.json: where each
                    \* one is and what it has read
    last            \* the last call made and what it returned

vars == <<taskgraph, graph_counter, state_file, state_write, events_file,
          tasks, territories, active_by_tier, now, procs, last>>

graphVars == <<taskgraph, graph_counter, state_file, state_write, events_file,
               now, procs>>
schedVars == <<tasks, territories, active_by_tier>>

(***************************************************************************)
(* Bounds                                                                  *)
(***************************************************************************)
MaxEdges == 3       \* edges of a template in the topological-sort check
MaxReadyEdges == 2  \* edges of a graph in the ready-set check
MaxEvents == 1      \* events appended in one behaviour
MaxBatchTasks == 4  \* tasks added before schedule_next_batch is called
MaxLog == 3         \* lines of events.jsonl
MaxCommands == 4    \* events written by the cli commands of one behaviour
MaxRetries == 2     \* retries recorded for one node in state.json
MaxTasks == 2       \* tasks added to one WukongScheduler

NodeIds == <<"A", "B", "C">>
None == "None"

(***************************************************************************)
(* Generic helpers                                                         *)
(***************************************************************************)
Range(s) == {s[i] : i \in DOMAIN s}

SeqsUpTo(S, n) == UNION {[1..k -> S] : k \in 0..n}

DistinctSeqs(S, n) ==
    {s \in SeqsUpTo(S, n) : \A i, j \in DOMAIN s : i # j => s[i] # s[j]}

\* list.remove(x): drops the first occurrence of x
RECURSIVE ListRemove(_, _)
ListRemove(s, x) ==
    IF s = <<>> THEN <<>>
    ELSE IF Head(s) = x THEN Tail(s)
    ELSE <<Head(s)>> \o ListRemove(Tail(s), x)

Count(s, x) == Cardinality({i \in DOMAIN s : s[i] = x})

(***************************************************************************)
(* runtime/scheduler.py : constants                                        *)
(***************************************************************************)
NODE_STATUS == {"pending", "running", "done", "failed", "blocked"}
GRAPH_STATUS == {"created", "running", "paused", "completed", "aborted"}
EDGE_CONDITIONS == {"on_success", "on_failure", "always"}

(***************************************************************************)
(* runtime/scheduler.py : Scheduler                                        *)
(***************************************************************************)
NodeIdsOf(graph) == [i \in DOMAIN graph.nodes |-> graph.nodes[i].id]

\* index of the first node with this id, 0 when there is none
_get_node_by_id(graph, node_id) ==
    IF \E i \in DOMAIN graph.nodes : graph.nodes[i].id = node_id
    THEN CHOOSE i \in DOMAIN graph.nodes :
            /\ graph.nodes[i].id = node_id
            /\ \A j \in 1..(i-1) : graph.nodes[j].id # node_id
    ELSE 0

\* variant: the edges that leave the node are returned
_get_incoming_edges_leaving(graph, node_id) ==
    LET from_node(edge) == edge.from = node_id
    IN SelectSeq(graph.edges, from_node)

_get_incoming_edges(graph, node_id) ==
    LET to_node(edge) == edge.to = node_id
    IN SelectSeq(graph.edges, to_node)

_get_outgoing_edges(graph, node_id) ==
    LET from_node(edge) == edge.from = node_id
    IN SelectSeq(graph.edges, from_node)

\* variant: "always" is taken to mean the same as "on_success"
_is_dependency_satisfied_done_only(graph, edge) ==
    LET from_node == _get_node_by_id(graph, edge.from)
    IN IF from_node = 0 THEN FALSE
       ELSE graph.nodes[from_node].status = "done"
                /\ edge.condition \in {"on_success", "always"}

_is_dependency_satisfied(graph, edge) ==
    LET from_node == _get_node_by_id(graph, edge.from)
    IN IF from_node = 0 THEN FALSE
       ELSE LET from_status == graph.nodes[from_node].status
                condition == edge.condition
            IN IF condition = "on_success" THEN from_status = "done"
               ELSE IF condition = "on_failure" THEN from_status = "failed"
               ELSE IF condition = "always" THEN from_status \in {"done", "failed"}
               ELSE FALSE

\* variant: the status of the node itself is not looked at
get_ready_nodes_any_status(graph) ==
    LET is_ready(node) ==
            LET incoming == _get_incoming_edges(graph, node.id)
            IN \/ incoming = <<>>
               \/ \A k \in DOMAIN incoming :
                     _is_dependency_satisfied(graph, incoming[k])
        ready == SelectSeq(graph.nodes, is_ready)
    IN [k \in DOMAIN ready |-> ready[k].id]

\* the ids of the ready nodes, in node order
get_ready_nodes(graph) ==
    LET is_ready(node) ==
            /\ node.status = "pending"
            /\ LET incoming == _get_incoming_edges(graph, node.id)
               IN \/ incoming = <<>>
                  \/ \A k \in DOMAIN incoming :
                        _is_dependency_satisfied(graph, incoming[k])
        ready == SelectSeq(graph.nodes, is_ready)
    IN [k \in DOMAIN ready |-> ready[k].id]

is_graph_complete(graph) ==
    \A i \in DOMAIN graph.nodes : graph.nodes[i].status \in {"done", "failed"}

\* variant: completion is tested before running nodes are looked for
get_graph_status_completed_first(graph) ==
    LET nodes == graph.nodes
        has_running == \E i \in DOMAIN nodes : nodes[i].status = "running"
        has_pending == \E i \in DOMAIN nodes : nodes[i].status = "pending"
        has_failed == \E i \in DOMAIN nodes : nodes[i].status = "failed"
    IN IF nodes = <<>> THEN "created"
       ELSE IF ~has_pending THEN "completed"
       ELSE IF has_running THEN "running"
       ELSE IF has_failed THEN "aborted"
       ELSE "created"

get_graph_status(graph) ==
    LET nodes == graph.nodes
        has_running == \E i \in DOMAIN nodes : nodes[i].status = "running"
        has_pending == \E i \in DOMAIN nodes : nodes[i].status = "pending"
        has_failed == \E i \in DOMAIN nodes : nodes[i].status = "failed"
    IN IF nodes = <<>> THEN "created"
       ELSE IF has_running THEN "running"
       ELSE IF ~has_pending THEN "completed"
       ELSE IF has_failed THEN "aborted"
       ELSE "created"

\* instantiate_graph: a copy of the template with a fresh id, status created,
\* empty execution sets and every node pending.  Template nodes carry id, role
\* and title only, so retry_count (read with a default of 0) starts at 0.
instantiate_graph(template, new_id) ==
    [id |-> new_id,
     status |-> "created",
     nodes |-> [i \in DOMAIN template.nodes |->
                  [id |-> template.nodes[i].id,
                   status |-> "pending",
                   retry_count |-> 0]],
     edges |-> template.edges,
     execution |-> [active_nodes |-> <<>>,
                    completed_nodes |-> <<>>,
                    failed_nodes |-> <<>>]]

\* mark_node_status after its two validations passed
mark_node_status(graph, node_id, status) ==
    LET node == _get_node_by_id(graph, node_id)
        execution == graph.execution
        active == IF status = "running"
                  THEN IF node_id \in Range(execution.active_nodes)
                       THEN execution.active_nodes
                       ELSE Append(execution.active_nodes, node_id)
                  ELSE ListRemove(execution.active_nodes, node_id)
        completed == IF status = "done" /\ node_id \notin Range(execution.completed_nodes)
                     THEN Append(execution.completed_nodes, node_id)
                     ELSE execution.completed_nodes
        failed == IF status = "failed" /\ node_id \notin Range(execution.failed_nodes)
                  THEN Append(execution.failed_nodes, node_id)
                  ELSE execution.failed_nodes
    IN [graph EXCEPT !.nodes[node].status = status,
                     !.execution = [active_nodes |-> active,
                                    completed_nodes |-> completed,
                                    failed_nodes |-> failed]]

mark_node_status_raises(graph, node_id, status) ==
    \/ status \notin NODE_STATUS
    \/ _get_node_by_id(graph, node_id) = 0


(***************************************************************************)
(* topological_sort: Kahn's algorithm.  in_degree and adjacency are dicts  *)
(* keyed by node id; an edge counts only when both endpoints are keys.     *)
(***************************************************************************)
NodeKeys(graph) == Range(NodeIdsOf(graph))

topo_edge_counts(graph, edge) ==
    edge.from \in NodeKeys(graph) /\ edge.to \in NodeKeys(graph)

topo_in_degree(graph) ==
    [n \in NodeKeys(graph) |->
        Cardinality({k \in DOMAIN graph.edges :
                        /\ topo_edge_counts(graph, graph.edges[k])
                        /\ graph.edges[k].to = n})]

topo_adjacency(graph) ==
    [n \in NodeKeys(graph) |->
        LET from_n(edge) == topo_edge_counts(graph, edge) /\ edge.from = n
            out == SelectSeq(graph.edges, from_n)
        IN [k \in DOMAIN out |-> out[k].to]]

\* the for-loop over adjacency[node_id]: decrement, enqueue at zero
RECURSIVE topo_visit(_, _, _)
topo_visit(neighbors, in_degree, queue) ==
    IF neighbors = <<>> THEN [in_degree |-> in_degree, queue |-> queue]
    ELSE LET neighbor == Head(neighbors)
             degree == in_degree[neighbor] - 1
         IN topo_visit(Tail(neighbors),
                       [in_degree EXCEPT ![neighbor] = degree],
                       IF degree = 0 THEN Append(queue, neighbor) ELSE queue)

\* the while-loop over the queue
RECURSIVE topo_loop(_, _, _, _)
topo_loop(queue, result, in_degree, adjacency) ==
    IF queue = <<>> THEN result
    ELSE LET node_id == Head(queue)
             visited == topo_visit(adjacency[node_id], in_degree, Tail(queue))
         IN topo_loop(visited.queue, Append(result, node_id),
                      visited.in_degree, adjacency)

\* variant: the length of the result is not compared with the node count
topological_sort_no_cycle_check(graph) ==
    LET in_degree == topo_in_degree(graph)
        zero(node_id) == in_degree[node_id] = 0
        queue == SelectSeq(NodeIdsOf(graph), zero)
    IN [raised |-> FALSE,
        result |-> topo_loop(queue, <<>>, in_degree, topo_adjacency(graph))]

\* [raised |-> TRUE] stands for ValueError("Graph contains a cycle")
topological_sort(graph) ==
    LET in_degree == topo_in_degree(graph)
        zero(node_id) == in_degree[node_id] = 0
        queue == SelectSeq(NodeIdsOf(graph), zero)
        result == topo_loop(queue, <<>>, in_degree, topo_adjacency(graph))
    IN IF Len(result) # Len(graph.nodes)
       THEN [raised |-> TRUE, result |-> <<>>]
       ELSE [raised |-> FALSE, result |-> result]

(***************************************************************************)
(* Templates: node ids are distinct and every edge joins two nodes of the  *)
(* template.                                                               *)
(***************************************************************************)
EdgesOver(ids, conditions) == [from : ids, to : ids, condition : conditions]

Template(node_ids, edges) ==
    [nodes |-> [i \in DOMAIN node_ids |-> [id |-> node_ids[i]]], edges |-> edges]

\* every list of distinct node ids
NodeLists == DistinctSeqs(Range(NodeIds), Len(NodeIds))

\* the lists that keep the order of NodeIds
OrderedNodeLists ==
    {node_ids \in NodeLists :
        \A i, j \in DOMAIN node_ids :
            i < j => \E a, b \in DOMAIN NodeIds :
                        a < b /\ NodeIds[a] = node_ids[i] /\ NodeIds[b] = node_ids[j]}

\* topological_sort never reads an edge's condition
TopoConditions == {"on_success"}

\* the templates of the status-machine check: no node; one node; the two-node
\* chain of the test suite
RunTemplates ==
    {Template(<<>>, <<>>),
     Template(<<"A">>, <<>>),
     Template(<<"A", "B">>, <<[from |-> "A", to |-> "B", condition |-> "on_success"]>>)}

\* the scenario template: A and B without dependencies, C after both
ScenarioTemplate ==
    [nodes |-> <<[id |-> "A"], [id |-> "B"], [id |-> "C"]>>,
     edges |-> <<[from |-> "A", to |-> "C", condition |-> "on_success"],
                 [from |-> "B", to |-> "C", condition |-> "on_success"]>>]


(***************************************************************************)
(* runtime/state_manager.py : the state.json document                      *)
(***************************************************************************)
NoGraphId == 0

\* RuntimeState().to_dict(); metadata.retry_counts[n] = 0 stands for "no key n"
RuntimeStateDefault ==
    [current_graph_id |-> NoGraphId,
     current_phase |-> 0,
     active_nodes |-> <<>>,
     completed_nodes |-> <<>>,
     failed_nodes |-> <<>>,
     status |-> "idle",
     session_id |-> None,
     metadata |-> [retry_counts |-> [n \in Range(NodeIds) |-> 0]]]

\* What state.json can hold besides a snapshot document: text that is not
\* JSON, bytes that are not UTF-8, and JSON that is not an object (a list).
NotJson == [corrupt |-> "not_json"]
NotUtf8 == [corrupt |-> "not_utf8"]
JsonList == [corrupt |-> "json_list"]

IsDocument(content) == "corrupt" \notin DOMAIN content

\* get_state raises: only JSONDecodeError and IOError are caught, the
\* UnicodeDecodeError of open(..., encoding="utf-8") is neither
get_state_raises(file) == file # <<>> /\ file[1] = NotUtf8

\* get_state: the default when the file is absent or json.load fails,
\* otherwise whatever json.load returns
get_state(file) ==
    IF file = <<>> THEN RuntimeStateDefault
    ELSE IF file[1] = NotJson THEN RuntimeStateDefault
    ELSE file[1]

\* state.get(...) / state.update(...) on what get_state returned raise
\* AttributeError when it is a list
store_op_raises(file) ==
    get_state_raises(file) \/ ~IsDocument(get_state(file))

\* state.update(kwargs)
merge_state(state, kwargs) ==
    [field \in DOMAIN state \cup DOMAIN kwargs |->
        IF field \in DOMAIN kwargs THEN kwargs[field] ELSE state[field]]

\* _atomic_write writing in place: json.dump straight into state.json
_atomic_write_step_in_place(file, write) ==
    IF write.temp = "empty"
    THEN [file |-> <<NotJson>>, write |-> <<[write EXCEPT !.temp = "partial"]>>]
    ELSE IF write.temp = "partial"
    THEN [file |-> <<write.data>>,
          write |-> <<[write EXCEPT !.temp = "complete"]>>]
    ELSE [file |-> <<write.data>>, write |-> <<>>]

\* _atomic_write, one step at a time: the temp file of mkstemp is empty,
\* json.dump fills it (part of the text, then all of it), and os.replace
\* puts it in the place of state.json
_atomic_write_step(file, write) ==
    IF write.temp = "empty"
    THEN [file |-> file, write |-> <<[write EXCEPT !.temp = "partial"]>>]
    ELSE IF write.temp = "partial"
    THEN [file |-> file, write |-> <<[write EXCEPT !.temp = "complete"]>>]
    ELSE [file |-> <<write.data>>, write |-> <<>>]

\* update_state: the document its set_state call writes (updated_at, a
\* timestamp, is left out of the documents)
update_state(file, kwargs) == merge_state(get_state(file), kwargs)

start_graph(file, graph_id, session_id) ==
    update_state(file, [current_graph_id |-> graph_id,
                        session_id |-> session_id,
                        status |-> "running",
                        current_phase |-> 0,
                        active_nodes |-> <<>>,
                        completed_nodes |-> <<>>,
                        failed_nodes |-> <<>>])

complete_graph(file) ==
    update_state(file, [status |-> "completed", active_nodes |-> <<>>])

abort_graph(file, reason) ==
    LET metadata == get_state(file).metadata
    IN update_state(file,
          [status |-> "aborted",
           active_nodes |-> <<>>,
           metadata |-> IF reason # None
                        THEN merge_state(metadata, [abort_reason |-> reason])
                        ELSE metadata])

pause_graph(file) == update_state(file, [status |-> "paused"])

\* variant: the id is appended without looking whether it is in the list
activate_node_appends(file, node_id) ==
    update_state(file,
        [active_nodes |-> Append(get_state(file).active_nodes, node_id)])

activate_node(file, node_id) ==
    LET active == get_state(file).active_nodes
    IN update_state(file,
          [active_nodes |-> IF node_id \notin Range(active)
                            THEN Append(active, node_id) ELSE active])

complete_node(file, node_id) ==
    LET state == get_state(file)
        active == ListRemove(state.active_nodes, node_id)
        completed == IF node_id \notin Range(state.completed_nodes)
                     THEN Append(state.completed_nodes, node_id)
                     ELSE state.completed_nodes
    IN update_state(file, [active_nodes |-> active, completed_nodes |-> completed])

fail_node(file, node_id) ==
    LET state == get_state(file)
        active == ListRemove(state.active_nodes, node_id)
        failed == IF node_id \notin Range(state.failed_nodes)
                  THEN Append(state.failed_nodes, node_id)
                  ELSE state.failed_nodes
    IN update_state(file, [active_nodes |-> active, failed_nodes |-> failed])

\* prepare_for_resume: what it returns
\* prepare_for_resume without the 'already completed' refusal
prepare_for_resume_result_completed_resumes(file) ==
    LET state == get_state(file)
    IN IF state.current_graph_id = NoGraphId
       THEN [success |-> FALSE, error |-> "No task to resume"]
       ELSE IF state.status = "running" /\ state.active_nodes = <<>>
       THEN [success |-> FALSE,
             error |-> "Task is already running with no interrupted nodes"]
       ELSE [success |-> TRUE,
             resumed_nodes |-> state.active_nodes,
             status |-> "running",
             graph_id |-> state.current_graph_id]

prepare_for_resume_result(file) ==
    LET state == get_state(file)
    IN IF state.current_graph_id = NoGraphId
       THEN [success |-> FALSE, error |-> "No task to resume"]
       ELSE IF state.status = "completed"
       THEN [success |-> FALSE, error |-> "Task is already completed"]
       ELSE IF state.status = "running" /\ state.active_nodes = <<>>
       THEN [success |-> FALSE,
             error |-> "Task is already running with no interrupted nodes"]
       ELSE [success |-> TRUE,
             resumed_nodes |-> state.active_nodes,
             status |-> "running",
             graph_id |-> state.current_graph_id]

\* prepare_for_resume setting the status only, the active nodes kept
prepare_for_resume_keeps_active(file) ==
    IF prepare_for_resume_result(file).success
    THEN <<update_state(file, [status |-> "running"])>>
    ELSE file

\* prepare_for_resume: state.json afterwards
prepare_for_resume(file) ==
    IF prepare_for_resume_result(file).success
    THEN <<update_state(file, [status |-> "running", active_nodes |-> <<>>])>>
    ELSE file

\* record_retry: the document written by its update_state call
record_retry(file, node_id) ==
    LET state == get_state(file)
        metadata == [state.metadata EXCEPT !.retry_counts[node_id] = @ + 1]
        failed == ListRemove(state.failed_nodes, node_id)
    IN [state EXCEPT !.metadata = metadata, !.failed_nodes = failed]

get_retry_count(file, node_id) == get_state(file).metadata.retry_counts[node_id]

(***************************************************************************)
(* runtime/event_bus.py : the events.jsonl log                             *)
(***************************************************************************)
EVENT_TYPES == {"UserPromptSubmit", "TaskGraphCreated", "NodeScheduled",
                "SubagentStart", "SubagentProgress", "SubagentStop",
                "NodeCompleted", "NodeFailed", "NodeBlocked",
                "ValidationPass", "ValidationFail", "Stop", "PreCompact",
                "ContextSnapshot", "AnchorExtracted"}
EVENT_SOURCES == {"user", "scheduler", "subagent", "validator", "system"}

\* variant: only the event type is validated
write_event_raises_type_only(event_type, source) ==
    event_type \notin EVENT_TYPES

write_event_raises(event_type, source) ==
    event_type \notin EVENT_TYPES \/ source \notin EVENT_SOURCES

\* The text an interrupted write left at the end of the file: the first
\* part of a record's JSON text, or all of it, without the newline.
TornRecord == [malformed |-> "torn"]

EndsTorn(log) == log # <<>> /\ log[Len(log)] = TornRecord

\* open(events_file, "a") and f.write(text + "\n"): the text goes where the
\* file ends.  After a torn record it continues the torn record's line, and
\* the line then holds the torn text followed by the written text, which
\* is not JSON.
append_text(log, line) ==
    IF EndsTorn(log)
    THEN [log EXCEPT ![Len(log)] = [malformed |-> "invalid_json"]]
    ELSE Append(log, line)

\* the log after write_event appended one line; event_id stands for the uuid
write_event(log, event_type, payload, node_id, graph_id, source) ==
    append_text(log, [event_id |-> Len(log) + 1,
                      type |-> event_type,
                      payload |-> payload,
                      node_id |-> node_id,
                      graph_id |-> graph_id,
                      source |-> source])

\* A line of events.jsonl is an event record as write_event appends it, or
\* text that came from elsewhere: a blank line, text that is not JSON
\* (truncated JSON included), a JSON object without a required field, or
\* JSON that is not an object.
MalformedKinds == {"blank", "invalid_json", "missing_field", "not_object"}

MalformedLine(kind) == [malformed |-> kind]

IsEventLine(line) == "event_id" \in DOMAIN line

\* json.loads / Event.from_dict on one line: JSONDecodeError is caught, the
\* KeyError and TypeError of Event.from_dict are not
read_line_raises(line) ==
    IF IsEventLine(line) THEN FALSE
    ELSE line.malformed \in {"missing_field", "not_object"}

\* read_events() without filters and limit
read_events(log) ==
    IF \E i \in DOMAIN log : read_line_raises(log[i])
    THEN [raised |-> TRUE]
    ELSE [raised |-> FALSE, events |-> SelectSeq(log, IsEventLine)]

\* variant: the event with the given id is returned as well
get_events_since_inclusive(log, event_id) ==
    LET read == read_events(log)
    IN IF read.raised THEN read
       ELSE LET events == read.events
                found == {i \in DOMAIN events : events[i].event_id = event_id}
            IN [raised |-> FALSE,
                events |-> IF found = {} THEN <<>>
                           ELSE LET i == CHOOSE k \in found :
                                              \A m \in found : k <= m
                                IN SubSeq(events, i, Len(events))]

get_events_since(log, event_id) ==
    LET read == read_events(log)
    IN IF read.raised THEN read
       ELSE LET events == read.events
                found == {i \in DOMAIN events : events[i].event_id = event_id}
            IN [raised |-> FALSE,
                events |-> IF found = {} THEN <<>>
                           ELSE LET i == CHOOSE k \in found :
                                              \A m \in found : k <= m
                                IN SubSeq(events, i + 1, Len(events))]

\* clear_events: the file is unlinked
clear_events(log) == <<>>

(***************************************************************************)
(* runtime/cli.py : retry_node, the graph document it saves                *)
(***************************************************************************)
\* variant: the status of the node is not looked at
retry_node_refused_unknown_only(graph, node_id) ==
    _get_node_by_id(graph, node_id) = 0

retry_node_refused(graph, node_id) ==
    LET target_node == _get_node_by_id(graph, node_id)
    IN \/ target_node = 0
       \/ graph.nodes[target_node].status # "failed"

retry_node_graph(graph, node_id) ==
    LET target_node == _get_node_by_id(graph, node_id)
    IN [graph EXCEPT !.nodes[target_node].retry_count = @ + 1,
                     !.nodes[target_node].status = "pending"]

(***************************************************************************)
(* runtime/health_monitor.py : HealthMonitor                               *)
(***************************************************************************)
DEFAULT_CONFIGS ==
    [cheap |-> [heartbeat_interval_sec |-> 60,
                warning_threshold_sec |-> 180,
                timeout_threshold_sec |-> 300],
     medium |-> [heartbeat_interval_sec |-> 45,
                 warning_threshold_sec |-> 120,
                 timeout_threshold_sec |-> 240],
     expensive |-> [heartbeat_interval_sec |-> 30,
                    warning_threshold_sec |-> 90,
                    timeout_threshold_sec |-> 120]]

ROLE_TO_TIER ==
    [eye |-> "cheap", nose |-> "cheap", ear |-> "medium", tongue |-> "medium",
     body |-> "expensive", mind |-> "expensive"]

\* node_id.startswith(role), for the node ids used here
StartsWith(node_id, role) ==
    <<node_id, role>> \in {<<"eye_explore", "eye">>, <<"body_implement", "body">>}

\* _get_node_tier: graph nodes carry neither constraints nor role here, so
\* the tier comes from the role the id starts with, medium when there is none
_get_node_tier(node_id) ==
    IF \E role \in DOMAIN ROLE_TO_TIER : StartsWith(node_id, role)
    THEN ROLE_TO_TIER[CHOOSE role \in DOMAIN ROLE_TO_TIER : StartsWith(node_id, role)]
    ELSE "medium"

_get_config(node_id) == DEFAULT_CONFIGS[_get_node_tier(node_id)]

\* _load_state: the dict in state.json, {} when it is absent or not JSON
_load_state(file) ==
    IF file = <<>> THEN <<>>
    ELSE IF file[1] = NotJson THEN <<>>
    ELSE file[1]

\* state.get("heartbeats", {}): node id -> heartbeat record
heartbeats_of(state) ==
    IF "heartbeats" \in DOMAIN state THEN state.heartbeats ELSE <<>>

with_heartbeats(state, heartbeats) ==
    [key \in DOMAIN state \cup {"heartbeats"} |->
        IF key = "heartbeats" THEN heartbeats ELSE state[key]]

\* record_heartbeat: the state it saves
record_heartbeat(file, node_id, timestamp) ==
    LET state == _load_state(file)
        heartbeats == heartbeats_of(state)
        record == [node_id |-> node_id, timestamp |-> timestamp,
                   status |-> "running"]
    IN with_heartbeats(state,
           [n \in DOMAIN heartbeats \cup {node_id} |->
               IF n = node_id THEN record ELSE heartbeats[n]])

\* clear_heartbeat: True when there was a record to delete
clear_heartbeat_result(file, node_id) ==
    node_id \in DOMAIN heartbeats_of(_load_state(file))

\* clear_heartbeat: the state it saves when there was one
clear_heartbeat(file, node_id) ==
    LET state == _load_state(file)
        heartbeats == heartbeats_of(state)
    IN with_heartbeats(state,
           [n \in DOMAIN heartbeats \ {node_id} |-> heartbeats[n]])

\* clear_all_heartbeats: the state it saves
clear_all_heartbeats(file) == with_heartbeats(_load_state(file), <<>>)

\* variant: a node is stalled from the warning threshold on
health_status_from_threshold(seconds_since, config) ==
    IF seconds_since > config.timeout_threshold_sec THEN "timeout"
    ELSE IF seconds_since >= config.warning_threshold_sec THEN "stalled"
    ELSE "healthy"

\* check_health: the status of a node with a heartbeat record
health_status(seconds_since, config) ==
    IF seconds_since > config.timeout_threshold_sec THEN "timeout"
    ELSE IF seconds_since > config.warning_threshold_sec THEN "stalled"
    ELSE "healthy"

\* check_health: the report of one node
node_health(state, node_id, time) ==
    LET heartbeats == heartbeats_of(state)
        config == _get_config(node_id)
    IN IF node_id \notin DOMAIN heartbeats
       THEN [status |-> "unknown", seconds_since_heartbeat |-> None,
             cost_tier |-> _get_node_tier(node_id)]
       ELSE LET seconds_since == time - heartbeats[node_id].timestamp
            IN [status |-> health_status(seconds_since, config),
                seconds_since_heartbeat |-> seconds_since,
                cost_tier |-> _get_node_tier(node_id)]

\* check_health: the nodes it looks at
all_node_ids(state) ==
    DOMAIN heartbeats_of(state)
        \cup (IF "active_nodes" \in DOMAIN state THEN Range(state.active_nodes)
              ELSE {})

\* check_health: the HealthReport
check_health(file, time) ==
    LET state == _load_state(file)
        nodes == [n \in all_node_ids(state) |-> node_health(state, n, time)]
        count(status) == Cardinality({n \in DOMAIN nodes : nodes[n].status = status})
    IN [healthy_count |-> count("healthy"),
        stalled_count |-> count("stalled"),
        timeout_count |-> count("timeout"),
        nodes |-> nodes]

\* variant: only a timeout is reported by an event
health_event_type_timeout_only(status) ==
    IF status = "timeout" THEN "SubagentTimeout" ELSE None

\* check_health: the event it writes for a node of this status, if any
health_event_type(status) ==
    IF status = "stalled" THEN "SubagentStalled"
    ELSE IF status = "timeout" THEN "SubagentTimeout"
    ELSE None

\* HealthMonitor._write_event: one line appended, nothing validated
health_write_event(log, event_type, payload, node_id) ==
    append_text(log, [event_id |-> Len(log) + 1,
                      type |-> event_type,
                      payload |-> payload,
                      node_id |-> node_id,
                      graph_id |-> None,
                      source |-> "system"])

\* check_health: the log after its loop went through the nodes in this order
RECURSIVE check_health_events(_, _, _)
check_health_events(log, report, order) ==
    IF order = <<>> THEN log
    ELSE LET node_id == Head(order)
             event_type == health_event_type(report.nodes[node_id].status)
         IN check_health_events(
                IF event_type = None THEN log
                ELSE health_write_event(
                         log, event_type,
                         [seconds_since_heartbeat |->
                              report.nodes[node_id].seconds_since_heartbeat],
                         node_id),
                report, Tail(order))

\* cli.resume_task: the graph document it saves, every running node back to
\* pending and the graph running
resume_task_graph(graph) ==
    [graph EXCEPT !.nodes = [i \in DOMAIN graph.nodes |->
                               IF graph.nodes[i].status = "running"
                               THEN [graph.nodes[i] EXCEPT !.status = "pending"]
                               ELSE graph.nodes[i]],
                  !.status = "running"]

(***************************************************************************)
(* .wukong/scheduler/scheduler.py : configuration                          *)
(***************************************************************************)
AvatarType == {"EYE", "EAR", "NOSE", "TONGUE", "BODY", "MIND"}

AVATAR_CONFIG ==
    [EYE    |-> [cost |-> "cheap",     max_concurrent |-> 10],
     EAR    |-> [cost |-> "cheap",     max_concurrent |-> 10],
     NOSE   |-> [cost |-> "cheap",     max_concurrent |-> 5],
     TONGUE |-> [cost |-> "medium",    max_concurrent |-> 3],
     BODY   |-> [cost |-> "expensive", max_concurrent |-> 1],
     MIND   |-> [cost |-> "expensive", max_concurrent |-> 1]]

\* the per-tier ceilings of schedule_next_batch
TIER_MAX_CONCURRENT == [cheap |-> 10, medium |-> 3, expensive |-> 1]

TierOrder == <<"cheap", "medium", "expensive">>

TaskStatus == {"PENDING", "IN_PROGRESS", "COMPLETED", "FAILED", "BLOCKED"}

(***************************************************************************)
(* .wukong/scheduler/scheduler.py : Territory                              *)
(***************************************************************************)
\* an owner is a task id; NoOwner stands for the empty owner string that
\* parse_territory_declaration gives every territory it returns
NoOwner == 0

Territory(file_path, owner, granularity, function_name, class_name) ==
    [file_path |-> file_path, owner |-> owner, granularity |-> granularity,
     function_name |-> function_name, class_name |-> class_name]

\* variant: only the granularity of self is tested for "file"
conflicts_with_self_file_only(self, other) ==
    IF self.file_path # other.file_path THEN FALSE
    ELSE IF self.granularity = "file" THEN TRUE
    ELSE IF self.granularity = "function" /\ other.granularity = "function"
         THEN self.function_name = other.function_name
    ELSE IF self.granularity = "class" /\ other.granularity = "class"
         THEN self.class_name = other.class_name
    ELSE FALSE

conflicts_with(self, other) ==
    IF self.file_path # other.file_path THEN FALSE
    ELSE IF self.granularity = "file" \/ other.granularity = "file" THEN TRUE
    ELSE IF self.granularity = "function" /\ other.granularity = "function"
         THEN self.function_name = other.function_name
    ELSE IF self.granularity = "class" /\ other.granularity = "class"
         THEN self.class_name = other.class_name
    ELSE FALSE

\* f"{file_path}:{granularity}:{function_name or class_name or 'full'}"
territory_key(t) ==
    <<t.file_path, t.granularity,
      IF t.function_name # None THEN t.function_name
      ELSE IF t.class_name # None THEN t.class_name
      ELSE "full">>

(***************************************************************************)
(* .wukong/scheduler/scheduler.py : WukongScheduler                        *)
(* A scheduler state is the record [tasks, territories, active_by_tier].   *)
(***************************************************************************)
\* the conflicts claim_territory collects: <<key, owner>> of every recorded
\* territory of another owner that a requested territory conflicts with
claim_conflicts(recorded, task_id, requested) ==
    {<<existing_path, recorded[existing_path].owner>> :
        existing_path \in
            {k \in DOMAIN recorded :
                \E i \in DOMAIN requested :
                    /\ recorded[k].owner # task_id
                    /\ conflicts_with(requested[i], recorded[k])}}

\* self.territories[key] = t for every requested t, in order
RECURSIVE record_territories(_, _)
record_territories(recorded, requested) ==
    IF requested = <<>> THEN recorded
    ELSE record_territories(
            (territory_key(Head(requested)) :> Head(requested)) @@ recorded,
            Tail(requested))

\* variant: the territories are recorded whether or not conflicts were found
claim_territory_always_records(recorded, task_id, requested) ==
    record_territories(recorded, requested)

\* self.territories after claim_territory
claim_territory(recorded, task_id, requested) ==
    IF claim_conflicts(recorded, task_id, requested) = {}
    THEN record_territories(recorded, requested)
    ELSE recorded

\* self.territories after release_territory
release_territory(recorded, task_id) ==
    [k \in {key \in DOMAIN recorded : recorded[key].owner # task_id} |-> recorded[k]]

\* a task id that names no task
UnknownTask == MaxTasks + 1

get_task(sched, task_id) == sched.tasks[task_id]

is_task(sched, task_id) == task_id \in DOMAIN sched.tasks

\* can_start: its answer, and self.territories as its claim leaves them
can_start(sched, task) ==
    LET config == AVATAR_CONFIG[task.avatar]
        tier == config.cost
        max_concurrent == config.max_concurrent
        blocking == {i \in DOMAIN task.depends_on :
                        /\ is_task(sched, task.depends_on[i])
                        /\ get_task(sched, task.depends_on[i]).status # "COMPLETED"}
        active_count == Len(sched.active_by_tier[tier])
        conflicts == claim_conflicts(sched.territories, task.task_id, task.territories)
    IN IF blocking # {}
       THEN [ok |-> FALSE, reason |-> "dependency", territories |-> sched.territories]
       ELSE IF active_count >= max_concurrent
       THEN [ok |-> FALSE, reason |-> "max_concurrent", territories |-> sched.territories]
       ELSE IF conflicts # {}
       THEN [ok |-> FALSE, reason |-> "territory", territories |-> sched.territories]
       ELSE [ok |-> TRUE, reason |-> "ready",
             territories |-> claim_territory(sched.territories, task.task_id,
                                             task.territories)]

\* add_task: the id is the counter value, which is the number of tasks so far
add_task(sched, avatar, task_territories, depends_on) ==
    [sched EXCEPT !.tasks = Append(@, [task_id |-> Len(sched.tasks) + 1,
                                       avatar |-> avatar,
                                       status |-> "PENDING",
                                       territories |-> task_territories,
                                       depends_on |-> depends_on])]

\* start_task on a known task
start_task(sched, task_id) ==
    LET task == get_task(sched, task_id)
        answer == can_start(sched, task)
        tier == AVATAR_CONFIG[task.avatar].cost
    IN IF ~answer.ok
       THEN [sched EXCEPT !.tasks[task_id].status = "BLOCKED",
                          !.territories = answer.territories]
       ELSE [sched EXCEPT !.tasks[task_id].status = "IN_PROGRESS",
                          !.territories = answer.territories,
                          !.active_by_tier[tier] = Append(@, task_id)]

\* complete_task on a known task
complete_task(sched, task_id, success) ==
    LET task == get_task(sched, task_id)
        tier == AVATAR_CONFIG[task.avatar].cost
    IN [sched EXCEPT !.tasks[task_id].status =
                            IF success THEN "COMPLETED" ELSE "FAILED",
                     !.active_by_tier[tier] = ListRemove(@, task_id),
                     !.territories = release_territory(sched.territories, task_id)]

\* get_ready_tasks: the PENDING tasks can_start accepts, in insertion order;
\* every can_start call leaves its claim in self.territories
RECURSIVE ready_scan(_, _, _)
ready_scan(sched, i, ready) ==
    IF i > Len(sched.tasks)
    THEN [ready |-> ready, territories |-> sched.territories]
    ELSE LET task == sched.tasks[i]
             answer == can_start(sched, task)
         IN IF task.status = "PENDING"
            THEN ready_scan([sched EXCEPT !.territories = answer.territories],
                            i + 1,
                            IF answer.ok THEN Append(ready, task.task_id) ELSE ready)
            ELSE ready_scan(sched, i + 1, ready)

get_ready_tasks(sched) == ready_scan(sched, 1, <<>>)

\* the Python slice s[:n]
SliceTo(s, n) ==
    LET stop == IF n >= 0 THEN n ELSE Len(s) + n
    IN SubSeq(s, 1, IF stop > Len(s) THEN Len(s) ELSE IF stop < 0 THEN 0 ELSE stop)

\* variant: every ready task is put in the batch, whatever the free slots
schedule_next_batch_all_ready(sched) ==
    LET scan == get_ready_tasks(sched)
        by_tier(tier) ==
            LET of_tier(task_id) ==
                    AVATAR_CONFIG[get_task(sched, task_id).avatar].cost = tier
            IN SelectSeq(scan.ready, of_tier)
    IN [batch |-> by_tier(TierOrder[1]) \o by_tier(TierOrder[2])
                    \o by_tier(TierOrder[3]),
        ready |-> scan.ready,
        territories |-> scan.territories]

\* schedule_next_batch: the ids of the batch, and self.territories afterwards
schedule_next_batch(sched) ==
    LET scan == get_ready_tasks(sched)
        by_tier(tier) ==
            LET of_tier(task_id) ==
                    AVATAR_CONFIG[get_task(sched, task_id).avatar].cost = tier
            IN SelectSeq(scan.ready, of_tier)
        admitted(tier) ==
            LET max_concurrent == TIER_MAX_CONCURRENT[tier]
                current_active == Len(sched.active_by_tier[tier])
                slots == max_concurrent - current_active
            IN SliceTo(by_tier(tier), slots)
    IN [batch |-> admitted(TierOrder[1]) \o admitted(TierOrder[2])
                    \o admitted(TierOrder[3]),
        ready |-> scan.ready,
        territories |-> scan.territories]

(***************************************************************************)
(* Initial state: no documents on disk, an empty WukongScheduler           *)
(***************************************************************************)
Tiers == {"cheap", "medium", "expensive"}

NoCall == [op |-> "none"]

InitGraph ==
    /\ taskgraph = <<>>
    /\ graph_counter = 0
    /\ state_file = <<>>
    /\ state_write = <<>>
    /\ now = 0
    /\ procs = <<>>
    /\ events_file = <<>>

InitSched ==
    /\ tasks = <<>>
    /\ territories = <<>>
    /\ active_by_tier = [tier \in Tiers |-> <<>>]

Init == InitGraph /\ InitSched /\ last = NoCall

(***************************************************************************)
(* Actions on the task graph                                               *)
(***************************************************************************)
\* Scheduler.instantiate_graph(template, ...)
Instantiate(template) ==
    /\ taskgraph = <<>>
    /\ graph_counter' = graph_counter + 1
    /\ taskgraph' = <<instantiate_graph(template, graph_counter + 1)>>
    /\ last' = [op |-> "instantiate_graph"]
    /\ UNCHANGED <<state_file, state_write, events_file, schedVars, now, procs>>

\* Scheduler.mark_node_status(graph, node_id, status)
MarkNodeStatus(node_id, status) ==
    /\ taskgraph # <<>>
    /\ IF mark_node_status_raises(taskgraph[1], node_id, status)
       THEN /\ last' = [op |-> "mark_node_status", raised |-> TRUE]
            /\ UNCHANGED taskgraph
       ELSE /\ taskgraph' = <<mark_node_status(taskgraph[1], node_id, status)>>
            /\ last' = [op |-> "mark_node_status", raised |-> FALSE]
    /\ UNCHANGED <<graph_counter, state_file, state_write, events_file, schedVars, now, procs>>

\* cli.retry_node(node_id): graph document, then state.json, then the event
RetryNode(node_id) ==
    /\ taskgraph # <<>>
    /\ IF retry_node_refused(taskgraph[1], node_id)
       THEN /\ last' = [op |-> "retry_node", success |-> FALSE]
            /\ UNCHANGED <<taskgraph, state_file, events_file>>
       ELSE /\ Len(events_file) < MaxEvents
            /\ LET graph == retry_node_graph(taskgraph[1], node_id)
                   target_node == _get_node_by_id(graph, node_id)
               IN /\ taskgraph' = <<graph>>
                  /\ state_file' = <<record_retry(state_file, node_id)>>
                  /\ events_file' =
                        write_event(events_file, "NodeScheduled",
                                    [action |-> "retry",
                                     retry_count |-> graph.nodes[target_node].retry_count],
                                    node_id, graph.id, "user")
                  /\ last' = [op |-> "retry_node", success |-> TRUE]
    /\ UNCHANGED <<graph_counter, state_write, schedVars, now, procs>>

\* Scheduler.topological_sort(graph)
CallTopologicalSort ==
    /\ taskgraph # <<>>
    /\ last' = [op |-> "topological_sort"] @@ topological_sort(taskgraph[1])
    /\ UNCHANGED <<graphVars, schedVars>>

\* Scheduler.get_ready_nodes(graph)
CallGetReadyNodes ==
    /\ taskgraph # <<>>
    /\ last' = [op |-> "get_ready_nodes", result |-> get_ready_nodes(taskgraph[1])]
    /\ UNCHANGED <<graphVars, schedVars>>

\* Scheduler.get_graph_status(graph)
CallGetGraphStatus ==
    /\ taskgraph # <<>>
    /\ last' = [op |-> "get_graph_status", result |-> get_graph_status(taskgraph[1])]
    /\ UNCHANGED <<graphVars, schedVars>>

\* Scheduler.is_graph_complete(graph)
CallIsGraphComplete ==
    /\ taskgraph # <<>>
    /\ last' = [op |-> "is_graph_complete", result |-> is_graph_complete(taskgraph[1])]
    /\ UNCHANGED <<graphVars, schedVars>>

MarkInputs == Range(NodeIds) \cup {"nonexistent"}
StatusInputs == NODE_STATUS \cup {"invalid_status"}

(***************************************************************************)
(* SpecTopo: instantiate any template, sort it                             *)
(***************************************************************************)
InstantiateTopo ==
    /\ taskgraph = <<>>
    /\ \E node_ids \in NodeLists :
        \E edges \in SeqsUpTo(EdgesOver(Range(node_ids), TopoConditions), MaxEdges) :
            Instantiate(Template(node_ids, edges))

NextTopo == InstantiateTopo \/ CallTopologicalSort

SpecTopo == Init /\ [][NextTopo]_vars

(***************************************************************************)
(* SpecReady: a graph document with any node statuses, queried             *)
(***************************************************************************)
WithStatuses(graph, statuses) ==
    [graph EXCEPT !.nodes = [i \in DOMAIN graph.nodes |->
                                [graph.nodes[i] EXCEPT !.status = statuses[i]]]]

InitReady ==
    /\ \E node_ids \in OrderedNodeLists :
          \E edges \in SeqsUpTo(EdgesOver(Range(node_ids), EDGE_CONDITIONS), MaxReadyEdges) :
            \E statuses \in [DOMAIN node_ids -> NODE_STATUS] :
                taskgraph = <<WithStatuses(instantiate_graph(Template(node_ids, edges), 1),
                                           statuses)>>
    /\ graph_counter = 1
    /\ state_file = <<>>
    /\ state_write = <<>>
    /\ now = 0
    /\ procs = <<>>
    /\ events_file = <<>>
    /\ InitSched
    /\ last = NoCall

NextReady == CallGetReadyNodes

SpecReady == InitReady /\ [][NextReady]_vars

(***************************************************************************)
(* SpecGraph: the status machine of one run                                *)
(***************************************************************************)
InstantiateRun == \E template \in RunTemplates : Instantiate(template)

MarkAny == \E node_id \in MarkInputs, status \in StatusInputs :
              MarkNodeStatus(node_id, status)

RetryAny == \E node_id \in MarkInputs : RetryNode(node_id)

NextGraph ==
    \/ InstantiateRun
    \/ MarkAny
    \/ RetryAny
    \/ CallGetGraphStatus

SpecGraph == Init /\ [][NextGraph]_vars

(***************************************************************************)
(* SpecScenario: the run of the scenario template                          *)
(***************************************************************************)
InstantiateScenario == Instantiate(ScenarioTemplate)

NextScenario ==
    \/ InstantiateScenario
    \/ MarkAny
    \/ CallGetReadyNodes
    \/ CallIsGraphComplete

SpecScenario == Init /\ [][NextScenario]_vars


(***************************************************************************)
(* Graph-theoretic vocabulary of the properties                            *)
(***************************************************************************)
StatusOf(graph, node_id) == graph.nodes[_get_node_by_id(graph, node_id)].status

IdsWithStatus(graph, status) ==
    {graph.nodes[i].id : i \in {j \in DOMAIN graph.nodes : graph.nodes[j].status = status}}

EdgePairs(graph) ==
    {<<graph.edges[k].from, graph.edges[k].to>> : k \in DOMAIN graph.edges}

RECURSIVE ReachableIn(_, _, _)
ReachableIn(pairs, frontier, steps) ==
    IF steps = 0 THEN {}
    ELSE LET next == {p[2] : p \in {q \in pairs : q[1] \in frontier}}
         IN next \cup ReachableIn(pairs, next, steps - 1)

HasCycle(graph) ==
    \E n \in NodeKeys(graph) :
        n \in ReachableIn(EdgePairs(graph), {n}, Len(graph.nodes))

PositionIn(order, node_id) == CHOOSE k \in DOMAIN order : order[k] = node_id

IsPermutationOf(order, ids) ==
    /\ Len(order) = Cardinality(ids)
    /\ Range(order) = ids

(***************************************************************************)
(* C1: get_ready_nodes returns exactly the pending nodes all of whose      *)
(* incoming edges are satisfied by the status of their source (on_success: *)
(* done, on_failure: failed, always: done or failed), each once; so a      *)
(* pending node without incoming edges is always returned.                 *)
(***************************************************************************)
C1_EdgeSatisfied(graph, edge) ==
    LET source == StatusOf(graph, edge.from)
    IN \/ edge.condition = "on_success" /\ source = "done"
       \/ edge.condition = "on_failure" /\ source = "failed"
       \/ edge.condition = "always" /\ source \in {"done", "failed"}

C1_Expected(graph) ==
    {n \in IdsWithStatus(graph, "pending") :
        \A k \in DOMAIN graph.edges :
            graph.edges[k].to = n => C1_EdgeSatisfied(graph, graph.edges[k])}

C1_ReadyNodesExact ==
    last.op = "get_ready_nodes" =>
        LET graph == taskgraph[1]
        IN /\ IsPermutationOf(last.result, C1_Expected(graph))
           /\ \A n \in IdsWithStatus(graph, "pending") :
                (\A k \in DOMAIN graph.edges : graph.edges[k].to # n)
                    => n \in Range(last.result)

\* C is returned through an always edge from a failed node, while another
\* pending node is held back by an on_success edge from that failed node
C1_Witness ==
    /\ last.op = "get_ready_nodes"
    /\ LET graph == taskgraph[1]
       IN /\ "C" \in Range(last.result)
          /\ \E j, k \in DOMAIN graph.edges :
                /\ graph.edges[k].to = "C"
                /\ graph.edges[k].condition = "always"
                /\ StatusOf(graph, graph.edges[k].from) = "failed"
                /\ graph.edges[j].from = graph.edges[k].from
                /\ graph.edges[j].condition = "on_success"
                /\ StatusOf(graph, graph.edges[j].to) = "pending"
                /\ graph.edges[j].to \notin Range(last.result)

(***************************************************************************)
(* C2: topological_sort returns a permutation of the node ids in which the *)
(* source of every edge precedes its target, or raises; it raises exactly  *)
(* when the edges contain a cycle.                                         *)
(***************************************************************************)
C2_TopologicalSort ==
    last.op = "topological_sort" =>
        LET graph == taskgraph[1]
        IN /\ last.raised <=> HasCycle(graph)
           /\ ~last.raised =>
                /\ IsPermutationOf(last.result, NodeKeys(graph))
                /\ \A k \in DOMAIN graph.edges :
                      PositionIn(last.result, graph.edges[k].from)
                        < PositionIn(last.result, graph.edges[k].to)

\* three nodes sorted into an order that differs from the node list
C2_Witness ==
    /\ last.op = "topological_sort"
    /\ ~last.raised
    /\ Len(last.result) = 3
    /\ Len(taskgraph[1].edges) >= 2
    /\ last.result # NodeIdsOf(taskgraph[1])

(***************************************************************************)
(* C6: instantiate_graph never returns a graph whose edges contain a       *)
(* cycle (a template with a cycle, a self-loop included, is rejected).     *)
(***************************************************************************)
C6_InstantiatedGraphAcyclic ==
    taskgraph # <<>> => ~HasCycle(taskgraph[1])


(***************************************************************************)
(* C3: a node's status changes only along pending->running, running->done, *)
(* running->failed and failed->pending, the last one only through a retry  *)
(* that increments the node's retry_count.                                 *)
(***************************************************************************)
C3_AllowedTransitions ==
    {<<"pending", "running">>, <<"running", "done">>,
     <<"running", "failed">>, <<"failed", "pending">>}

SameGraphStep == taskgraph # <<>> /\ taskgraph' # <<>>

C3_NodeStateMachine ==
    [][SameGraphStep =>
        \A i \in DOMAIN taskgraph[1].nodes :
            LET before == taskgraph[1].nodes[i]
                after == taskgraph'[1].nodes[i]
            IN before.status # after.status =>
                /\ <<before.status, after.status>> \in C3_AllowedTransitions
                /\ before.status = "failed" =>
                      /\ last'.op = "retry_node"
                      /\ after.retry_count = before.retry_count + 1]_vars

\* C3 as amended: mark_node_status sets whatever valid status is requested and
\* never touches retry_count; retry_count changes only in a successful
\* retry_node, which acts on a failed node only, moves it to pending and
\* increments its retry_count by one.
C3_RetryOnlyFromFailed ==
    [][SameGraphStep =>
        \A i \in DOMAIN taskgraph[1].nodes :
            LET before == taskgraph[1].nodes[i]
                after == taskgraph'[1].nodes[i]
            IN /\ last'.op = "mark_node_status" =>
                    /\ after.retry_count = before.retry_count
                    /\ after.status \in NODE_STATUS
               /\ (last'.op = "retry_node" /\ after # before) =>
                    /\ last'.success
                    /\ before.status = "failed"
                    /\ after.status = "pending"
                    /\ after.retry_count = before.retry_count + 1
               /\ after.retry_count # before.retry_count =>
                    last'.op = "retry_node"]_vars

\* a failed node was retried: it is pending again with retry_count 1, and the
\* other node went from pending straight to done
C3_Witness ==
    /\ taskgraph # <<>>
    /\ last.op = "retry_node" /\ last.success
    /\ Len(taskgraph[1].nodes) = 2
    /\ taskgraph[1].nodes[1].status = "pending"
    /\ taskgraph[1].nodes[1].retry_count = 1
    /\ taskgraph[1].nodes[2].status = "done"
    /\ taskgraph[1].execution.active_nodes = <<>>

(***************************************************************************)
(* C4: the execution sets mirror the node statuses: active_nodes holds     *)
(* exactly the running ids, completed_nodes exactly the done ids and       *)
(* failed_nodes exactly the failed ids, each id once.                      *)
(***************************************************************************)
C4_ExecutionMirrorsStatuses ==
    taskgraph # <<>> =>
        LET graph == taskgraph[1]
        IN /\ IsPermutationOf(graph.execution.active_nodes,
                              IdsWithStatus(graph, "running"))
           /\ IsPermutationOf(graph.execution.completed_nodes,
                              IdsWithStatus(graph, "done"))
           /\ IsPermutationOf(graph.execution.failed_nodes,
                              IdsWithStatus(graph, "failed"))

(***************************************************************************)
(* C5: get_graph_status is a function of the node statuses alone: running  *)
(* if any node is running; otherwise completed if no node is pending;      *)
(* otherwise aborted if a node is failed; otherwise created.               *)
(***************************************************************************)
C5_StatusOfNodes(graph) ==
    IF IdsWithStatus(graph, "running") # {} THEN "running"
    ELSE IF IdsWithStatus(graph, "pending") = {} THEN "completed"
    ELSE IF IdsWithStatus(graph, "failed") # {} THEN "aborted"
    ELSE "created"

C7_Scenario ==
    taskgraph # <<>> =>
        LET graph == taskgraph[1]
        IN /\ last.op = "instantiate_graph" =>
                IsPermutationOf(get_ready_nodes(graph), {"A", "B"})
           /\ (/\ StatusOf(graph, "A") = "done"
               /\ StatusOf(graph, "B") = "done"
               /\ StatusOf(graph, "C") = "pending")
                => get_ready_nodes(graph) = <<"C">>
           /\ StatusOf(graph, "C") \notin {"done", "failed"}
                => ~is_graph_complete(graph)
           /\ is_graph_complete(graph) <=>
                (\A n \in NodeKeys(graph) : StatusOf(graph, n) \in {"done", "failed"})
           /\ last.op = "get_ready_nodes" => last.result = get_ready_nodes(graph)
           /\ last.op = "is_graph_complete" => last.result = is_graph_complete(graph)

\* get_ready_nodes was called with A and B done and returned C alone
C7_Witness ==
    /\ last.op = "get_ready_nodes"
    /\ last.result = <<"C">>
    /\ StatusOf(taskgraph[1], "A") = "done"
    /\ StatusOf(taskgraph[1], "B") = "done"


(***************************************************************************)
(* Actions on the WukongScheduler                                          *)
(***************************************************************************)
Sched == [tasks |-> tasks, territories |-> territories,
          active_by_tier |-> active_by_tier]

SetSched(sched) ==
    /\ tasks' = sched.tasks
    /\ territories' = sched.territories
    /\ active_by_tier' = sched.active_by_tier

AddTask(avatar, task_territories, depends_on) ==
    /\ SetSched(add_task(Sched, avatar, task_territories, depends_on))
    /\ last' = [op |-> "add_task", task_id |-> Len(tasks) + 1]
    /\ UNCHANGED graphVars

StartTask(task_id) ==
    /\ IF is_task(Sched, task_id)
       THEN /\ SetSched(start_task(Sched, task_id))
            /\ last' = [op |-> "start_task", task_id |-> task_id,
                        result |-> can_start(Sched, get_task(Sched, task_id)).ok]
       ELSE /\ UNCHANGED schedVars
            /\ last' = [op |-> "start_task", task_id |-> task_id, result |-> FALSE]
    /\ UNCHANGED graphVars

CompleteTask(task_id, success) ==
    /\ IF is_task(Sched, task_id)
       THEN SetSched(complete_task(Sched, task_id, success))
       ELSE UNCHANGED schedVars
    /\ last' = [op |-> "complete_task", task_id |-> task_id]
    /\ UNCHANGED graphVars

TaskIdInputs == (1..MaxTasks) \cup {UnknownTask}

\* WukongScheduler.can_start(task), called on a task of the scheduler
CallCanStart(task_id) ==
    /\ is_task(Sched, task_id)
    /\ LET answer == can_start(Sched, get_task(Sched, task_id))
       IN /\ territories' = answer.territories
          /\ last' = [op |-> "can_start", task_id |-> task_id,
                      ok |-> answer.ok, reason |-> answer.reason]
    /\ UNCHANGED <<tasks, active_by_tier, graphVars>>

\* WukongScheduler.schedule_next_batch()
CallScheduleNextBatch ==
    /\ LET answer == schedule_next_batch(Sched)
       IN /\ territories' = answer.territories
          /\ last' = [op |-> "schedule_next_batch", batch |-> answer.batch,
                      ready |-> answer.ready]
    /\ UNCHANGED <<tasks, active_by_tier, graphVars>>

(***************************************************************************)
(* SpecTier: tasks without territories or dependencies, one avatar of      *)
(* every (tier, max_concurrent) combination                                *)
(***************************************************************************)
TierAvatars == {"EYE", "NOSE", "TONGUE", "BODY"}

AddTierTask ==
    /\ Len(tasks) < MaxTasks
    /\ \E avatar \in TierAvatars : AddTask(avatar, <<>>, <<>>)

StartAny == \E task_id \in TaskIdInputs : StartTask(task_id)

CompleteAny == \E task_id \in TaskIdInputs, success \in BOOLEAN :
                  CompleteTask(task_id, success)

NextTier == AddTierTask \/ StartAny \/ CompleteAny

SpecTier == Init /\ [][NextTier]_vars

(***************************************************************************)
(* SpecLoad: the cheap tier under load.  As many EYE tasks as the cheap    *)
(* tier admits are queued, then one NOSE task (cheap tier too); waiting    *)
(* tasks are started, the EYE tasks in the order of their ids, and the     *)
(* EYE tasks in progress complete or fail in that order too.               *)
(***************************************************************************)
LoadSize == TIER_MAX_CONCURRENT.cheap + 1

AddLoadTask ==
    /\ Len(tasks) < LoadSize
    /\ AddTask(IF Len(tasks) < TIER_MAX_CONCURRENT.cheap THEN "EYE" ELSE "NOSE",
               <<>>, <<>>)

Waiting(task) == task.status \in {"PENDING", "BLOCKED"}

StartWaiting ==
    /\ Len(tasks) = LoadSize
    /\ \E task_id \in DOMAIN tasks :
          /\ Waiting(tasks[task_id])
          /\ tasks[task_id].avatar = "EYE" =>
                \A earlier \in 1..(task_id - 1) : ~Waiting(tasks[earlier])
          /\ StartTask(task_id)

CompleteRunning ==
    \E task_id \in DOMAIN tasks, success \in BOOLEAN :
        /\ tasks[task_id].status = "IN_PROGRESS"
        /\ tasks[task_id].avatar = "EYE" =>
              \A earlier \in 1..(task_id - 1) :
                  tasks[earlier].status # "IN_PROGRESS"
        /\ CompleteTask(task_id, success)

NextLoad == AddLoadTask \/ StartWaiting \/ CompleteRunning

SpecLoad == Init /\ [][NextLoad]_vars


(***************************************************************************)
(* SpecTerr: claim_territory and release_territory called directly, every  *)
(* owner claiming territories declared in its own name                     *)
(***************************************************************************)
MaxClaim == 2       \* territories requested in one claim_territory call

Owners == {1, 2}

TerritoryShapes ==
    {<<"main.py", "file", None, None>>,
     <<"main.py", "function", "f", None>>,
     <<"main.py", "class", None, "f">>,
     <<"utils.py", "file", None, None>>}

TerritoriesOf(owner) ==
    {Territory(shape[1], owner, shape[2], shape[3], shape[4]) :
        shape \in TerritoryShapes}

ClaimTerritory(task_id, requested) ==
    /\ territories' = claim_territory(territories, task_id, requested)
    /\ last' = [op |-> "claim_territory", task_id |-> task_id,
                requested |-> requested,
                conflicts |-> claim_conflicts(territories, task_id, requested)]
    /\ UNCHANGED <<tasks, active_by_tier, graphVars>>

ReleaseTerritory(task_id) ==
    /\ territories' = release_territory(territories, task_id)
    /\ last' = [op |-> "release_territory", task_id |-> task_id]
    /\ UNCHANGED <<tasks, active_by_tier, graphVars>>

ClaimAny ==
    \E task_id \in Owners :
        \E requested \in SeqsUpTo(TerritoriesOf(task_id), MaxClaim) :
            ClaimTerritory(task_id, requested)

ReleaseAny == \E task_id \in Owners : ReleaseTerritory(task_id)

NextTerr == ClaimAny \/ ReleaseAny

SpecTerr == Init /\ [][NextTerr]_vars

(***************************************************************************)
(* SpecConflict: Territory.conflicts_with on every pair of territories     *)
(***************************************************************************)
FilePaths == {"main.py", "utils.py"}
Granularities == {"file", "function", "class"}
UnitNames == {None, "f", "g"}

TerritoryUniverse ==
    {Territory(file_path, owner, granularity, function_name, class_name) :
        file_path \in FilePaths, owner \in Owners, granularity \in Granularities,
        function_name \in UnitNames, class_name \in UnitNames}

InitConflict ==
    /\ InitGraph
    /\ InitSched
    /\ \E self \in TerritoryUniverse, other \in TerritoryUniverse :
          last = [op |-> "input", self |-> self, other |-> other]

CallConflictsWith ==
    /\ last.op = "input"
    /\ last' = [op |-> "conflicts_with", self |-> last.self, other |-> last.other,
                result |-> conflicts_with(last.self, last.other)]
    /\ UNCHANGED <<graphVars, schedVars>>

NextConflict == CallConflictsWith

SpecConflict == InitConflict /\ [][NextConflict]_vars

(***************************************************************************)
(* C8: the number of in-progress tasks of a tier never exceeds the tier's  *)
(* ceiling (cheap 10, medium 3, expensive 1); start_task returns False for *)
(* a task whose tier is at its ceiling; a refusal is caused by the task's  *)
(* own tier, never by another one; and once a task of a full tier          *)
(* completes, the other tasks of that tier that wait can start.            *)
(***************************************************************************)
TierOf(task) == AVATAR_CONFIG[task.avatar].cost

InProgress(sched, tier) ==
    {i \in DOMAIN sched.tasks :
        /\ sched.tasks[i].status = "IN_PROGRESS"
        /\ TierOf(sched.tasks[i]) = tier}

SchedNext == [tasks |-> tasks', territories |-> territories',
              active_by_tier |-> active_by_tier']

C8_TierCeiling ==
    [][/\ \A tier \in Tiers :
            Cardinality(InProgress(SchedNext, tier)) <= TIER_MAX_CONCURRENT[tier]
       /\ (last'.op = "start_task" /\ is_task(Sched, last'.task_id)) =>
            LET tier == TierOf(get_task(Sched, last'.task_id))
            IN /\ Cardinality(InProgress(Sched, tier)) >= TIER_MAX_CONCURRENT[tier]
                    => ~last'.result
               /\ ~last'.result => InProgress(Sched, tier) # {}
       /\ (/\ last'.op = "complete_task"
           /\ is_task(Sched, last'.task_id)
           /\ get_task(Sched, last'.task_id).status = "IN_PROGRESS") =>
            LET tier == TierOf(get_task(Sched, last'.task_id))
            IN Cardinality(InProgress(Sched, tier)) = TIER_MAX_CONCURRENT[tier] =>
                  \A u \in DOMAIN tasks :
                      (TierOf(tasks[u]) = tier /\ Waiting(tasks'[u]))
                        => can_start(SchedNext, tasks'[u]).ok]_vars

(***************************************************************************)
(* C10: conflicts_with(a, b) is true exactly when a and b name the same    *)
(* file and either one of them has file granularity or both name the same  *)
(* sub-unit (the same function, or the same class); it is symmetric.       *)
(***************************************************************************)
C10_SubUnit(t) ==
    IF t.granularity = "function" THEN <<"function", t.function_name>>
    ELSE <<"class", t.class_name>>

C10_Conflict(a, b) ==
    /\ a.file_path = b.file_path
    /\ \/ a.granularity = "file"
       \/ b.granularity = "file"
       \/ C10_SubUnit(a) = C10_SubUnit(b)

C10_ConflictsWith ==
    last.op = "conflicts_with" =>
        /\ last.result <=> C10_Conflict(last.self, last.other)
        /\ last.result <=> conflicts_with(last.other, last.self)

\* a function and a class of the same name in one file do not conflict
C10_Witness ==
    /\ last.op = "conflicts_with"
    /\ ~last.result
    /\ last.self.file_path = last.other.file_path
    /\ last.self.granularity = "function"
    /\ last.other.granularity = "class"
    /\ last.self.function_name = "f"
    /\ last.other.class_name = "f"

(***************************************************************************)
(* C9: claim_territory returns conflicts exactly when a requested          *)
(* territory conflicts with a territory recorded for another owner, and    *)
(* then records nothing; when it returns none, every requested territory   *)
(* is recorded.  release_territory removes the owner's territories, leaves *)
(* the others, and is idempotent; after it, a claim the owner blocked      *)
(* succeeds.                                                               *)
(***************************************************************************)
C9_Blocked(recorded, task_id, requested) ==
    \E i \in DOMAIN requested, k \in DOMAIN recorded :
        /\ recorded[k].owner # task_id
        /\ C10_Conflict(requested[i], recorded[k])

RecordedSet(recorded) == {recorded[k] : k \in DOMAIN recorded}

C9_ClaimAndRelease ==
    [][/\ last'.op = "claim_territory" =>
            /\ last'.conflicts # {}
                 <=> C9_Blocked(territories, last'.task_id, last'.requested)
            /\ last'.conflicts # {} => territories' = territories
            /\ last'.conflicts = {} =>
                 /\ Range(last'.requested) \subseteq RecordedSet(territories')
                 /\ RecordedSet(territories') \subseteq
                        RecordedSet(territories) \cup Range(last'.requested)
       /\ last'.op = "release_territory" =>
            /\ RecordedSet(territories') =
                  {t \in RecordedSet(territories) : t.owner # last'.task_id}
            /\ release_territory(territories', last'.task_id) = territories'
            /\ \A other \in Owners \ {last'.task_id} :
                 \A requested \in SeqsUpTo(TerritoriesOf(other), 1) :
                    C9_Blocked(territories, other, requested)
                        /\ ~C9_Blocked(territories', other, requested)
                      => /\ claim_conflicts(territories', other, requested) = {}
                         /\ Range(requested) \subseteq
                              RecordedSet(claim_territory(territories', other, requested))
      ]_vars

\* owner 2's claim of main.py was refused while owner 1 holds the whole file
C9_Witness ==
    /\ last.op = "claim_territory"
    /\ last.task_id = 2
    /\ last.conflicts # {}
    /\ last.requested = <<Territory("main.py", 2, "file", None, None)>>
    /\ Territory("main.py", 1, "file", None, None) \in RecordedSet(territories)
    /\ \A t \in RecordedSet(territories) : t.owner = 1


(***************************************************************************)
(* SpecRelease: tasks that declare territories, started and completed in   *)
(* any order (TONGUE tasks, medium tier).  A declaration of at most one    *)
(* territory is either written in the task's own name (the id add_task is  *)
(* about to give it) or the output of parse_territory_declaration, whose   *)
(* territories carry the empty owner.                                      *)
(***************************************************************************)
DeclaredShapes ==
    {<<"main.py", "file", None, None>>,
     <<"main.py", "function", "f", None>>,
     <<"utils.py", "file", None, None>>}

\* parse_territory_declaration: one territory per declared line, owner ""
parse_territory_declaration(shapes) ==
    [i \in DOMAIN shapes |->
        Territory(shapes[i][1], NoOwner, shapes[i][2], shapes[i][3], shapes[i][4])]

DeclaredBy(owner, shapes) ==
    [i \in DOMAIN shapes |->
        Territory(shapes[i][1], owner, shapes[i][2], shapes[i][3], shapes[i][4])]

AddDeclaringTask ==
    /\ Len(tasks) < MaxTasks
    /\ \E shapes \in SeqsUpTo(DeclaredShapes, 1) :
          \/ AddTask("TONGUE", DeclaredBy(Len(tasks) + 1, shapes), <<>>)
          \/ AddTask("TONGUE", parse_territory_declaration(shapes), <<>>)

NextRelease == AddDeclaringTask \/ StartAny \/ CompleteAny

SpecRelease == Init /\ [][NextRelease]_vars

(***************************************************************************)
(* C11: complete_task(t), on success or failure, removes from the          *)
(* territory map every territory recorded by t's claim and leaves the      *)
(* territories of the other tasks alone; afterwards a waiting task whose   *)
(* territories conflict with those of no task in progress can start.  This *)
(* covers declarations produced by parse_territory_declaration.            *)
(***************************************************************************)
C11_Held(sched) ==
    UNION {Range(sched.tasks[i].territories) :
              i \in {j \in DOMAIN sched.tasks : sched.tasks[j].status = "IN_PROGRESS"}}

C11_ReleasedOnCompletion ==
    [][(/\ last'.op = "complete_task"
        /\ is_task(Sched, last'.task_id)
        /\ get_task(Sched, last'.task_id).status = "IN_PROGRESS") =>
          LET mine == Range(get_task(Sched, last'.task_id).territories)
          IN /\ RecordedSet(territories') \cap (mine \ C11_Held(SchedNext)) = {}
             /\ RecordedSet(territories) \ mine \subseteq RecordedSet(territories')
             /\ \A u \in DOMAIN tasks :
                   (/\ Waiting(tasks'[u])
                    /\ \A mine_u \in Range(tasks[u].territories),
                          held \in C11_Held(SchedNext) :
                            ~C10_Conflict(mine_u, held))
                     => can_start(SchedNext, tasks'[u]).reason # "territory"]_vars


(***************************************************************************)
(* SpecAdmit: TONGUE and BODY tasks (avatars whose max_concurrent is the   *)
(* ceiling of their tier) with at most one dependency id - the id of any   *)
(* task, added or not - and at most one territory declared in the task's   *)
(* own name; can_start, start_task and complete_task are called in any     *)
(* order.                                                                  *)
(***************************************************************************)
AdmitAvatars == {"TONGUE", "BODY"}

AdmitShapes ==
    {<<"main.py", "file", None, None>>,
     <<"main.py", "function", "f", None>>}

AddAdmitTask ==
    /\ Len(tasks) < MaxTasks
    /\ \E avatar \in AdmitAvatars,
          shapes \in SeqsUpTo(AdmitShapes, 1),
          depends_on \in SeqsUpTo(TaskIdInputs, 1) :
            AddTask(avatar, DeclaredBy(Len(tasks) + 1, shapes), depends_on)

CanStartAny == \E task_id \in DOMAIN tasks : CallCanStart(task_id)

NextAdmit ==
    \/ AddAdmitTask
    \/ CanStartAny
    \/ StartAny
    \/ CompleteAny

SpecAdmit == Init /\ [][NextAdmit]_vars


(***************************************************************************)
(* C12: can_start(task) answers (False, blocked by dependency) unless      *)
(* every id in task.depends_on is a task whose status is COMPLETED; an id  *)
(* that is no task at all blocks like a task that is not completed.        *)
(***************************************************************************)
C12_Unmet(sched, task) ==
    \E i \in DOMAIN task.depends_on :
        ~(/\ is_task(sched, task.depends_on[i])
          /\ get_task(sched, task.depends_on[i]).status = "COMPLETED")

C12_DependencyBlocks ==
    last.op = "can_start" =>
        (C12_Unmet(Sched, get_task(Sched, last.task_id))
            => (~last.ok /\ last.reason = "dependency"))

(***************************************************************************)
(* C13: can_start checks dependencies, then the tier ceiling, then         *)
(* territory conflicts, and reports the first check that fails; a refusal  *)
(* for a dependency or tier reason records no territory.                   *)
(***************************************************************************)
C13_FirstFailure(sched, task) ==
    LET tier == AVATAR_CONFIG[task.avatar].cost
    IN IF C12_Unmet(sched, task) THEN "dependency"
       ELSE IF Len(sched.active_by_tier[tier]) >= TIER_MAX_CONCURRENT[tier]
            THEN "max_concurrent"
       ELSE IF C9_Blocked(sched.territories, task.task_id, task.territories)
            THEN "territory"
       ELSE "ready"

C13_CheckOrder ==
    [][last'.op = "can_start" =>
          /\ last'.reason = C13_FirstFailure(Sched, get_task(Sched, last'.task_id))
          /\ last'.ok <=> last'.reason = "ready"
          /\ last'.reason \in {"dependency", "max_concurrent"}
                => territories' = territories]_vars


(***************************************************************************)
(* SpecBatch: TONGUE and BODY tasks without territories or dependencies;   *)
(* the caller starts tasks that wait, tasks in progress complete or fail,  *)
(* and schedule_next_batch is called at any time.                          *)
(***************************************************************************)
AddBatchTask ==
    /\ Len(tasks) < MaxBatchTasks
    /\ \E avatar \in AdmitAvatars : AddTask(avatar, <<>>, <<>>)

StartWaitingTask ==
    \E task_id \in DOMAIN tasks :
        /\ Waiting(tasks[task_id])
        /\ StartTask(task_id)

NextBatch ==
    \/ AddBatchTask
    \/ StartWaitingTask
    \/ CompleteRunning
    \/ CallScheduleNextBatch

SpecBatch == Init /\ [][NextBatch]_vars

(***************************************************************************)
(* C14: schedule_next_batch returns, for each tier, the first              *)
(* (ceiling - active count) ready tasks of the tier in insertion order,    *)
(* one tier's admissions not depending on another tier's load; with        *)
(* ceiling 1 and two ready tasks of the tier it admits exactly one, and    *)
(* the second once the first was started and has completed.                *)
(***************************************************************************)
C14_OfTier(ids, tier) ==
    LET of_tier(task_id) == TierOf(tasks[task_id]) = tier
    IN SelectSeq(ids, of_tier)

\* the ready tasks: pending, with a free slot in their tier
C14_Ready ==
    {u \in DOMAIN tasks :
        /\ tasks[u].status = "PENDING"
        /\ Len(active_by_tier[TierOf(tasks[u])])
              < TIER_MAX_CONCURRENT[TierOf(tasks[u])]}

C14_NextBatch ==
    last.op = "schedule_next_batch" =>
        /\ Range(last.ready) = C14_Ready
        /\ \A i, j \in DOMAIN last.ready : i < j => last.ready[i] < last.ready[j]
        /\ Range(last.batch) \subseteq Range(last.ready)
        /\ Len(last.batch) = Cardinality(Range(last.batch))
        /\ \A tier \in Tiers :
              LET ready == C14_OfTier(last.ready, tier)
                  slots == TIER_MAX_CONCURRENT[tier] - Len(active_by_tier[tier])
              IN C14_OfTier(last.batch, tier) =
                    SubSeq(ready, 1, IF slots < Len(ready) THEN slots ELSE Len(ready))

\* two BODY tasks: the first has completed, the batch now admits the second
C14_Witness ==
    /\ last.op = "schedule_next_batch"
    /\ Len(tasks) >= 2
    /\ tasks[1].avatar = "BODY" /\ tasks[2].avatar = "BODY"
    /\ tasks[1].status = "COMPLETED"
    /\ last.batch = <<2>>

(***************************************************************************)
(* C15: a task that start_task refused is only deferred: once nothing      *)
(* stands in its way any more (dependencies completed, a slot free in its  *)
(* tier, no territory conflict) get_ready_tasks / schedule_next_batch      *)
(* offer it again and start_task on it succeeds.                           *)
(***************************************************************************)
C15_DeferredNotDropped ==
    [][/\ last'.op = "schedule_next_batch" =>
            \A u \in DOMAIN tasks :
                (/\ Waiting(tasks[u])
                 /\ C13_FirstFailure(Sched, tasks[u]) = "ready")
                  => u \in Range(last'.ready)
       /\ (/\ last'.op = "start_task"
           /\ is_task(Sched, last'.task_id)
           /\ Waiting(get_task(Sched, last'.task_id))
           /\ C13_FirstFailure(Sched, get_task(Sched, last'.task_id)) = "ready")
            => last'.result]_vars


(***************************************************************************)
(* Actions on state.json: one StateManager call each (get_state, the       *)
(* change, set_state).  A call that raises leaves the file as it is.       *)
(***************************************************************************)
StoreCall(op, document) ==
    /\ state_write = <<>>
    /\ IF store_op_raises(state_file)
       THEN /\ last' = [op |-> op, raised |-> TRUE]
            /\ UNCHANGED state_file
       ELSE /\ state_file' = <<document>>
            /\ last' = [op |-> op, raised |-> FALSE]
    /\ UNCHANGED <<taskgraph, graph_counter, state_write, events_file, schedVars, now, procs>>

StoreNodeCall(op, node_id, document) ==
    /\ state_write = <<>>
    /\ IF store_op_raises(state_file)
       THEN /\ last' = [op |-> op, node_id |-> node_id, raised |-> TRUE]
            /\ UNCHANGED state_file
       ELSE /\ state_file' = <<document>>
            /\ last' = [op |-> op, node_id |-> node_id, raised |-> FALSE]
    /\ UNCHANGED <<taskgraph, graph_counter, state_write, events_file, schedVars, now, procs>>

StartGraph(graph_id, session_id) ==
    StoreCall("start_graph", start_graph(state_file, graph_id, session_id))

CompleteGraph == StoreCall("complete_graph", complete_graph(state_file))

AbortGraph(reason) == StoreCall("abort_graph", abort_graph(state_file, reason))

PauseGraph == StoreCall("pause_graph", pause_graph(state_file))

ActivateNode(node_id) ==
    StoreNodeCall("activate_node", node_id, activate_node(state_file, node_id))

CompleteNode(node_id) ==
    StoreNodeCall("complete_node", node_id, complete_node(state_file, node_id))

FailNode(node_id) ==
    StoreNodeCall("fail_node", node_id, fail_node(state_file, node_id))

RecordRetry(node_id) ==
    /\ IF store_op_raises(state_file) THEN TRUE
       ELSE get_retry_count(state_file, node_id) < MaxRetries
    /\ StoreNodeCall("record_retry", node_id, record_retry(state_file, node_id))

PrepareForResume ==
    /\ state_write = <<>>
    /\ IF store_op_raises(state_file)
       THEN /\ last' = [op |-> "prepare_for_resume", raised |-> TRUE]
            /\ UNCHANGED state_file
       ELSE /\ state_file' = prepare_for_resume(state_file)
            /\ last' = [op |-> "prepare_for_resume", raised |-> FALSE,
                        result |-> prepare_for_resume_result(state_file)]
    /\ UNCHANGED <<taskgraph, graph_counter, state_write, events_file, schedVars, now, procs>>

\* StateManager.get_state()
CallGetState ==
    /\ state_write = <<>>
    /\ last' = IF get_state_raises(state_file)
               THEN [op |-> "get_state", raised |-> TRUE]
               ELSE [op |-> "get_state", raised |-> FALSE,
                     result |-> get_state(state_file)]
    /\ UNCHANGED <<graphVars, schedVars>>

(***************************************************************************)
(* SpecStore: the State Store driven through its operations, from an       *)
(* absent state.json, for one graph and two node ids                       *)
(***************************************************************************)
StoreNodes == {"A", "B"}

StoreGraphId == 1

AbortReasons == {None, "stop"}

NextStore ==
    \/ StartGraph(StoreGraphId, "s1")
    \/ CompleteGraph
    \/ PauseGraph
    \/ \E reason \in AbortReasons : AbortGraph(reason)
    \/ \E node_id \in StoreNodes : ActivateNode(node_id)
    \/ \E node_id \in StoreNodes : CompleteNode(node_id)
    \/ \E node_id \in StoreNodes : FailNode(node_id)
    \/ \E node_id \in StoreNodes : RecordRetry(node_id)
    \/ PrepareForResume

SpecStore == Init /\ [][NextStore]_vars


\* no id occurs twice in the list
NoRepeats(ids) == \A i, k \in DOMAIN ids : ids[i] = ids[k] => i = k

NodeOps == {"activate_node", "complete_node", "fail_node"}

\* C16: through activate_node / complete_node / fail_node / record_retry
\* (and the graph operations) no node id occurs twice in active_nodes, in
\* completed_nodes or in failed_nodes, and repeating the activate_node,
\* complete_node or fail_node call just made leaves the stored snapshot as
\* it is.
C16_Idempotent ==
    /\ [](/\ NoRepeats(get_state(state_file).active_nodes)
          /\ NoRepeats(get_state(state_file).completed_nodes)
          /\ NoRepeats(get_state(state_file).failed_nodes))
    /\ [][(/\ last.op \in NodeOps
           /\ last'.op = last.op
           /\ last'.node_id = last.node_id) => state_file' = state_file]_vars

C16_Witness ==
    /\ last.op = "complete_node"
    /\ get_state(state_file).completed_nodes = <<"A", "B">>
    /\ get_state(state_file).active_nodes = <<>>
    /\ get_state(state_file).failed_nodes = <<"B">>


(***************************************************************************)
(* SpecWrite: update_state with its _atomic_write taken step by step, and  *)
(* the process stopping at any point of the write                          *)
(***************************************************************************)
\* keyword arguments of update_state
PartialUpdates ==
    {[status |-> "paused"],
     [active_nodes |-> <<"A">>],
     [current_graph_id |-> StoreGraphId, status |-> "running"],
     [current_phase |-> 1, completed_nodes |-> <<"A">>],
     [active_nodes |-> <<>>, failed_nodes |-> <<"B">>],
     [status |-> "idle", current_graph_id |-> NoGraphId, current_phase |-> 0]}

\* update_state(**kwargs) up to the mkstemp of its _atomic_write
BeginUpdateState(kwargs) ==
    /\ state_write = <<>>
    /\ ~store_op_raises(state_file)
    /\ state_write' = <<[temp |-> "empty",
                         data |-> update_state(state_file, kwargs)]>>
    /\ last' = [op |-> "update_state", kwargs |-> kwargs]
    /\ UNCHANGED <<taskgraph, graph_counter, state_file, events_file, schedVars, now, procs>>

\* the next step of the write in flight
WriteStep ==
    /\ state_write # <<>>
    /\ LET step == _atomic_write_step(state_file, state_write[1])
       IN  /\ state_file' = step.file
           /\ state_write' = step.write
    /\ UNCHANGED <<taskgraph, graph_counter, events_file, schedVars, now, procs, last>>

\* the process dies inside the write; the temp file is left behind
Crash ==
    /\ state_write # <<>>
    /\ state_write' = <<>>
    /\ last' = [op |-> "crash", temp |-> state_write[1].temp]
    /\ UNCHANGED <<taskgraph, graph_counter, state_file, events_file, schedVars, now, procs>>

NextWrite ==
    \/ \E kwargs \in PartialUpdates : BeginUpdateState(kwargs)
    \/ WriteStep
    \/ Crash
    \/ CallGetState

SpecWrite == Init /\ [][NextWrite]_vars

\* C17: when update_state(partial) has written, get_state() returns the
\* previous document with the fields of partial replaced and every other
\* field as it was; and while a write is under way, or after the process
\* died in it before the rename, get_state() still returns the whole
\* document of before the write.
C17_RoundTripCrashSafe ==
    [][/\ (state_write # <<>> /\ state_write' = <<>> /\ last'.op = "update_state")
            => \A field \in DOMAIN RuntimeStateDefault :
                  get_state(state_file')[field] =
                      IF field \in DOMAIN last.kwargs
                      THEN last.kwargs[field]
                      ELSE get_state(state_file)[field]
       /\ (state_write' # <<>> \/ last'.op = "crash")
            => get_state(state_file') = get_state(state_file)]_vars

C17_Witness ==
    /\ last.op = "get_state"
    /\ state_write = <<>>
    /\ last.result.status = "paused"
    /\ last.result.active_nodes = <<"A">>
    /\ last.result.failed_nodes = <<"B">>
    /\ last.result.current_graph_id = StoreGraphId


(***************************************************************************)
(* SpecCorrupt: the State Store started on a state.json that is absent or  *)
(* was damaged from outside                                                *)
(***************************************************************************)
CorruptContents == {NotJson, NotUtf8, JsonList}

InitCorrupt ==
    /\ taskgraph = <<>>
    /\ graph_counter = 0
    /\ state_file \in {<<>>} \cup {<<content>> : content \in CorruptContents}
    /\ state_write = <<>>
    /\ now = 0
    /\ procs = <<>>
    /\ events_file = <<>>
    /\ InitSched
    /\ last = NoCall

NextCorrupt == NextStore \/ CallGetState

SpecCorrupt == InitCorrupt /\ [][NextCorrupt]_vars

\* C18: no State Store call raises, and get_state() on an absent or corrupt
\* state.json (text that is not JSON, or JSON that is not a snapshot
\* object) returns the idle default snapshot.
C18_CorruptionNeverRaises ==
    /\ "raised" \in DOMAIN last => ~last.raised
    /\ (last.op = "get_state" /\ (state_file = <<>> \/ ~IsDocument(state_file[1])))
          => /\ ~last.raised
             /\ last.result = RuntimeStateDefault


\* C19: a prepare_for_resume() that succeeds returns as resumed_nodes the
\* active_nodes of just before the call and, in its one write, empties
\* active_nodes and sets status to running; current_graph_id,
\* completed_nodes, failed_nodes and the retry counts stay as they were.
C19_ResumeEffect ==
    [][(last'.op = "prepare_for_resume" /\ last'.result.success) =>
          LET before == get_state(state_file)
              after == get_state(state_file')
          IN  /\ last'.result.resumed_nodes = before.active_nodes
              /\ after.active_nodes = <<>>
              /\ after.status = "running"
              /\ after.current_graph_id = before.current_graph_id
              /\ after.completed_nodes = before.completed_nodes
              /\ after.failed_nodes = before.failed_nodes
              /\ after.metadata.retry_counts = before.metadata.retry_counts]_vars

C19_Witness ==
    /\ last.op = "prepare_for_resume"
    /\ last.result.success
    /\ last.result.resumed_nodes = <<"A", "B">>
    /\ get_state(state_file).status = "running"
    /\ get_state(state_file).active_nodes = <<>>
    /\ get_retry_count(state_file, "A") = 1

NoActiveGraph(state) == state.current_graph_id = NoGraphId

AlreadyCompleted(state) == state.status = "completed"

NothingToResume(state) == state.status = "running" /\ state.active_nodes = <<>>

\* C20: prepare_for_resume() fails exactly when there is no current graph
\* id, when the status is completed, or when the status is running with no
\* active node; it then reports the error of a case that holds and leaves
\* the stored snapshot untouched.  In every other state it succeeds.
C20_ResumeFailures ==
    [][last'.op = "prepare_for_resume" =>
          LET before == get_state(state_file)
              result == last'.result
          IN  /\ ~result.success <=> \/ NoActiveGraph(before)
                                     \/ AlreadyCompleted(before)
                                     \/ NothingToResume(before)
              /\ ~result.success =>
                   /\ state_file' = state_file
                   /\ result.error = "No task to resume"
                        => NoActiveGraph(before)
                   /\ result.error = "Task is already completed"
                        => AlreadyCompleted(before)
                   /\ result.error
                          = "Task is already running with no interrupted nodes"
                        => NothingToResume(before)
                   /\ result.error \in
                        {"No task to resume", "Task is already completed",
                         "Task is already running with no interrupted nodes"}]_vars

C20_Witness ==
    /\ last.op = "prepare_for_resume"
    /\ ~last.result.success
    /\ last.result.error = "Task is already completed"
    /\ get_state(state_file).status = "completed"
    /\ get_state(state_file).current_graph_id = StoreGraphId
    /\ get_state(state_file).completed_nodes = <<"A", "B">>


\* C21: once abort_graph has set the status to aborted, no State Store
\* operation other than start_graph (a new graph) changes the status.
C21_AbortTerminal ==
    [][(get_state(state_file).status = "aborted" /\ last'.op # "start_graph")
          => get_state(state_file').status = "aborted"]_vars


(***************************************************************************)
(* SpecCli: the cli commands, each writing taskgraph.json, then            *)
(* state.json, then events.jsonl; start_node may die between its writes    *)
(***************************************************************************)
\* the graph the commands run on: B after A
CliTemplate ==
    Template(<<"A", "B">>, <<[from |-> "A", to |-> "B", condition |-> "on_success"]>>)

CliNodes == {"A", "B"}

\* where start_node dies: after saving taskgraph.json, after activate_node,
\* or not at all
CrashPoints == {"taskgraph", "state", None}

\* cli.create_taskgraph(track, task)
CliCreateTaskgraph ==
    /\ taskgraph = <<>>
    /\ Len(events_file) < MaxCommands
    /\ LET graph == instantiate_graph(CliTemplate, graph_counter + 1)
       IN  /\ graph_counter' = graph_counter + 1
           /\ taskgraph' = <<graph>>
           /\ state_file' = <<start_graph(state_file, graph.id, "sess_default")>>
           /\ events_file' = write_event(events_file, "TaskGraphCreated",
                                         [graph_id |-> graph.id], None,
                                         graph.id, "user")
    /\ last' = [op |-> "create_taskgraph", success |-> TRUE]
    /\ UNCHANGED <<state_write, schedVars, now, procs>>

\* cli.start_node(node_id), run to its end or to the point where it dies
CliStartNode(node_id, crash) ==
    /\ taskgraph # <<>>
    /\ Len(events_file) < MaxCommands
    /\ IF mark_node_status_raises(taskgraph[1], node_id, "running")
       THEN /\ last' = [op |-> "start_node", success |-> FALSE, crash |-> None]
            /\ UNCHANGED <<taskgraph, state_file, events_file>>
       ELSE LET graph == mark_node_status(taskgraph[1], node_id, "running")
            IN  /\ taskgraph' = <<graph>>
                /\ state_file' = IF crash = "taskgraph" THEN state_file
                                 ELSE <<activate_node(state_file, node_id)>>
                /\ events_file' =
                      IF crash # None THEN events_file
                      ELSE write_event(events_file, "NodeScheduled",
                                       [node_id |-> node_id], node_id,
                                       graph.id, "scheduler")
                /\ last' = [op |-> "start_node", success |-> crash = None,
                            crash |-> crash]
    /\ UNCHANGED <<graph_counter, state_write, schedVars, now, procs>>

\* cli.complete_node(node_id), without a summary
CliCompleteNode(node_id) ==
    /\ taskgraph # <<>>
    /\ Len(events_file) < MaxCommands
    /\ IF mark_node_status_raises(taskgraph[1], node_id, "done")
       THEN /\ last' = [op |-> "complete_node", node_id |-> node_id,
                        success |-> FALSE]
            /\ UNCHANGED <<taskgraph, state_file, events_file>>
       ELSE LET graph == mark_node_status(taskgraph[1], node_id, "done")
                completed == <<complete_node(state_file, node_id)>>
                log == write_event(events_file, "NodeCompleted",
                                   [summary |-> ""], node_id, graph.id,
                                   "subagent")
            IN  /\ taskgraph' = <<graph>>
                /\ IF is_graph_complete(graph)
                   THEN /\ state_file' = <<complete_graph(completed)>>
                        /\ events_file' =
                              write_event(log, "Stop",
                                          [reason |-> "all_nodes_completed"],
                                          None, graph.id, "system")
                   ELSE /\ state_file' = completed
                        /\ events_file' = log
                /\ last' = [op |-> "complete_node", node_id |-> node_id,
                            success |-> TRUE]
    /\ UNCHANGED <<graph_counter, state_write, schedVars, now, procs>>

\* cli.fail_node(node_id), without a reason
CliFailNode(node_id) ==
    /\ taskgraph # <<>>
    /\ Len(events_file) < MaxCommands
    /\ IF mark_node_status_raises(taskgraph[1], node_id, "failed")
       THEN /\ last' = [op |-> "fail_node", node_id |-> node_id,
                        success |-> FALSE]
            /\ UNCHANGED <<taskgraph, state_file, events_file>>
       ELSE LET graph == mark_node_status(taskgraph[1], node_id, "failed")
            IN  /\ taskgraph' = <<graph>>
                /\ state_file' = <<fail_node(state_file, node_id)>>
                /\ events_file' = write_event(events_file, "NodeFailed",
                                              [reason |-> "unknown"], node_id,
                                              graph.id, "subagent")
                /\ last' = [op |-> "fail_node", node_id |-> node_id,
                            success |-> TRUE]
    /\ UNCHANGED <<graph_counter, state_write, schedVars, now, procs>>

\* cli.retry_node(node_id)
CliRetryNode(node_id) ==
    /\ taskgraph # <<>>
    /\ Len(events_file) < MaxCommands
    /\ IF retry_node_refused(taskgraph[1], node_id)
       THEN /\ last' = [op |-> "retry_node", success |-> FALSE]
            /\ UNCHANGED <<taskgraph, state_file, events_file>>
       ELSE LET graph == retry_node_graph(taskgraph[1], node_id)
                target_node == _get_node_by_id(graph, node_id)
            IN  /\ taskgraph' = <<graph>>
                /\ state_file' = <<record_retry(state_file, node_id)>>
                /\ events_file' =
                      write_event(events_file, "NodeScheduled",
                                  [action |-> "retry",
                                   retry_count |-> graph.nodes[target_node].retry_count],
                                  node_id, graph.id, "user")
                /\ last' = [op |-> "retry_node", success |-> TRUE]
    /\ UNCHANGED <<graph_counter, state_write, schedVars, now, procs>>

\* cli.resume_task()
CliResumeTask ==
    /\ Len(events_file) < MaxCommands
    /\ LET resume_result == prepare_for_resume_result(state_file)
       IN  IF ~resume_result.success
           THEN /\ last' = [op |-> "resume_task", success |-> FALSE]
                /\ UNCHANGED <<taskgraph, state_file, events_file>>
           ELSE /\ state_file' = prepare_for_resume(state_file)
                /\ IF taskgraph = <<>>
                   THEN /\ last' = [op |-> "resume_task", success |-> TRUE,
                                    resumed_nodes |-> resume_result.resumed_nodes,
                                    next_ready |-> <<>>]
                        /\ UNCHANGED <<taskgraph, events_file>>
                   ELSE LET graph == resume_task_graph(taskgraph[1])
                        IN  /\ taskgraph' = <<graph>>
                            /\ events_file' =
                                  write_event(events_file, "TaskGraphCreated",
                                              [action |-> "resume"], None,
                                              resume_result.graph_id, "user")
                            /\ last' = [op |-> "resume_task", success |-> TRUE,
                                        resumed_nodes |-> resume_result.resumed_nodes,
                                        next_ready |-> get_ready_nodes(graph)]
    /\ UNCHANGED <<graph_counter, state_write, schedVars, now, procs>>

NextCli ==
    \/ CliCreateTaskgraph
    \/ \E node_id \in CliNodes, crash \in CrashPoints : CliStartNode(node_id, crash)
    \/ \E node_id \in CliNodes : CliCompleteNode(node_id)
    \/ \E node_id \in CliNodes : CliFailNode(node_id)
    \/ \E node_id \in CliNodes : CliRetryNode(node_id)
    \/ CliResumeTask

SpecCli == Init /\ [][NextCli]_vars


\* the nodes a crash left in flight: running in taskgraph.json or listed in
\* the active_nodes of state.json
C22_Interrupted(graph, file) ==
    IdsWithStatus(graph, "running") \cup Range(get_state(file).active_nodes)

C22_DependenciesMet(graph, node_id) ==
    LET incoming == _get_incoming_edges(graph, node_id)
    IN \A k \in DOMAIN incoming : _is_dependency_satisfied(graph, incoming[k])

\* C22: when start_node died between its writes, the resume_task that
\* follows leaves no node running, leaves active_nodes empty, and every
\* interrupted node whose dependencies are satisfied is among the ready
\* nodes.
C22_ResumeAfterCrash ==
    [][(/\ last.op = "start_node"
        /\ last.crash # None
        /\ last'.op = "resume_task") =>
          /\ IdsWithStatus(taskgraph'[1], "running") = {}
          /\ get_state(state_file').active_nodes = <<>>
          /\ \A node_id \in C22_Interrupted(taskgraph[1], state_file) :
                C22_DependenciesMet(taskgraph'[1], node_id)
                   => node_id \in Range(get_ready_nodes(taskgraph'[1]))]_vars


(***************************************************************************)
(* SpecCliRun: the cli commands, every one run to its end                  *)
(***************************************************************************)
NextCliRun ==
    \/ CliCreateTaskgraph
    \/ \E node_id \in CliNodes : CliStartNode(node_id, None)
    \/ \E node_id \in CliNodes : CliCompleteNode(node_id)
    \/ \E node_id \in CliNodes : CliFailNode(node_id)
    \/ \E node_id \in CliNodes : CliRetryNode(node_id)
    \/ CliResumeTask

SpecCliRun == Init /\ [][NextCliRun]_vars

\* C23: after every cli command on a node that ran to its end (start,
\* complete, fail, retry, resume) the execution sets of taskgraph.json hold
\* the same ids as active_nodes, completed_nodes and failed_nodes of
\* state.json.
C23_ExecutionMirrorsSnapshot ==
    (/\ last.op \in {"start_node", "complete_node", "fail_node", "retry_node",
                     "resume_task"}
     /\ last.success
     /\ taskgraph # <<>>)
       => LET execution == taskgraph[1].execution
              state == get_state(state_file)
          IN  /\ Range(execution.active_nodes) = Range(state.active_nodes)
              /\ Range(execution.completed_nodes) = Range(state.completed_nodes)
              /\ Range(execution.failed_nodes) = Range(state.failed_nodes)


(***************************************************************************)
(* SpecEvents: the event log through the EventBus operations               *)
(***************************************************************************)
EventTypeInputs == {"NodeScheduled", "Stop", "NodeRestarted"}

EventSourceInputs == {"scheduler", "system", "executor"}

EventIdInputs == 0..(MaxLog + 1)

\* EventBus.write_event(event_type, {}, node_id=..., source=...)
WriteEvent(event_type, node_id, source) ==
    /\ Len(events_file) < MaxLog
    /\ IF write_event_raises(event_type, source)
       THEN /\ last' = [op |-> "write_event", raised |-> TRUE,
                        event_type |-> event_type, source |-> source]
            /\ UNCHANGED events_file
       ELSE /\ events_file' = write_event(events_file, event_type, <<>>,
                                          node_id, None, source)
            /\ last' = [op |-> "write_event", raised |-> FALSE,
                        event_type |-> event_type, source |-> source,
                        event_id |-> Len(events_file) + 1]
    /\ UNCHANGED <<taskgraph, graph_counter, state_file, state_write, schedVars, now, procs>>

\* EventBus.read_events()
ReadEvents ==
    /\ last' = [op |-> "read_events"] @@ read_events(events_file)
    /\ UNCHANGED <<graphVars, schedVars>>

\* EventBus.get_events_since(event_id)
GetEventsSince(event_id) ==
    /\ last' = [op |-> "get_events_since", event_id |-> event_id]
                  @@ get_events_since(events_file, event_id)
    /\ UNCHANGED <<graphVars, schedVars>>

\* EventBus.clear_events()
ClearEvents ==
    /\ events_file' = clear_events(events_file)
    /\ last' = [op |-> "clear_events"]
    /\ UNCHANGED <<taskgraph, graph_counter, state_file, state_write, schedVars, now, procs>>

NextEvents ==
    \/ \E event_type \in EventTypeInputs, node_id \in {None, "A"},
          source \in EventSourceInputs : WriteEvent(event_type, node_id, source)
    \/ ReadEvents
    \/ \E event_id \in EventIdInputs : GetEventsSince(event_id)
    \/ ClearEvents

SpecEvents == Init /\ [][NextEvents]_vars

(***************************************************************************)
(* SpecEventLines: the same, with lines written into events.jsonl from     *)
(* outside the EventBus                                                    *)
(***************************************************************************)
AppendLine(kind) ==
    /\ Len(events_file) < MaxLog
    /\ events_file' = Append(events_file, MalformedLine(kind))
    /\ last' = [op |-> "append_line", kind |-> kind]
    /\ UNCHANGED <<taskgraph, graph_counter, state_file, state_write, schedVars, now, procs>>

NextEventLines ==
    \/ NextEvents
    \/ \E kind \in MalformedKinds : AppendLine(kind)

SpecEventLines == Init /\ [][NextEventLines]_vars


\* C24: write_event with an event type outside EVENT_TYPES or a source
\* outside EVENT_SOURCES raises and the log is afterwards what it was
\* before.
C24_InvalidEventRejected ==
    [][(/\ last'.op = "write_event"
        /\ \/ last'.event_type \notin EVENT_TYPES
           \/ last'.source \notin EVENT_SOURCES)
          => /\ last'.raised
             /\ events_file' = events_file]_vars

C24_Witness ==
    /\ last.op = "write_event"
    /\ last.raised
    /\ last.event_type \in EVENT_TYPES
    /\ last.source \notin EVENT_SOURCES
    /\ Len(events_file) = 2

\* the events after the one with the given id, by position in the log
C25_After(log, event_id) ==
    IF \E i \in DOMAIN log : log[i].event_id = event_id
    THEN LET i == CHOOSE k \in DOMAIN log : log[k].event_id = event_id
         IN [k \in 1..(Len(log) - i) |-> log[i + k]]
    ELSE <<>>

\* C25: the log is append-only and ordered.  A write_event that returns an
\* id adds its event behind the events already there and changes none of
\* them; read_events() returns the events in that order, so every written
\* event until clear_events(); get_events_since(id) returns the events
\* behind the one with that id, and nothing for an unknown or the last id.
C25_AppendOnlyOrdered ==
    [][/\ (last'.op = "write_event" /\ ~last'.raised) =>
            /\ Len(events_file') = Len(events_file) + 1
            /\ SubSeq(events_file', 1, Len(events_file)) = events_file
            /\ events_file'[Len(events_file')].event_id = last'.event_id
            /\ \A i \in DOMAIN events_file :
                  events_file[i].event_id # last'.event_id
       /\ last'.op = "read_events" =>
            /\ ~last'.raised
            /\ last'.events = events_file
       /\ last'.op = "get_events_since" =>
            /\ ~last'.raised
            /\ last'.events = C25_After(events_file, last'.event_id)
       /\ last'.op \in {"read_events", "get_events_since"} =>
            events_file' = events_file]_vars

C25_Witness ==
    /\ last.op = "get_events_since"
    /\ Len(events_file) = MaxLog
    /\ last.event_id = events_file[1].event_id
    /\ Len(last.events) = MaxLog - 1

\* C26: read_events() never fails on a malformed line; it returns the
\* well-formed events of the log in order and skips every other line.
C26_MalformedSkipped ==
    last.op = "read_events" =>
        /\ ~last.raised
        /\ last.events = SelectSeq(events_file, IsEventLine)


(***************************************************************************)
(* SpecHealth: heartbeats and health checks on the state.json of a         *)
(* started graph, while the clock moves on                                 *)
(***************************************************************************)
\* the instants the clock goes through: both sides of every threshold
ClockInstants == <<0, 90, 91, 120, 121, 200, 240, 241, 310>>

\* an expensive and (by default) a medium node
HealthNodes == {"body_implement", "A"}

InitHealth ==
    /\ taskgraph = <<>>
    /\ graph_counter = 0
    /\ state_file = <<start_graph(<<>>, StoreGraphId, "s1")>>
    /\ state_write = <<>>
    /\ now = 0
    /\ procs = <<>>
    /\ events_file = <<>>
    /\ InitSched
    /\ last = NoCall

\* time passes
Tick ==
    /\ \E i \in DOMAIN ClockInstants :
          /\ ClockInstants[i] = now
          /\ i < Len(ClockInstants)
          /\ now' = ClockInstants[i + 1]
    /\ UNCHANGED <<taskgraph, graph_counter, state_file, state_write,
                   events_file, schedVars, procs, last>>

\* HealthMonitor.record_heartbeat(node_id)
RecordHeartbeat(node_id) ==
    /\ Len(events_file) < MaxLog
    /\ state_file' = <<record_heartbeat(state_file, node_id, now)>>
    /\ events_file' = health_write_event(events_file, "SubagentProgress",
                                         [node_id |-> node_id], node_id)
    /\ last' = [op |-> "record_heartbeat", node_id |-> node_id]
    /\ UNCHANGED <<taskgraph, graph_counter, state_write, schedVars, now, procs>>

\* HealthMonitor.clear_heartbeat(node_id)
ClearHeartbeat(node_id) ==
    /\ state_file' = IF clear_heartbeat_result(state_file, node_id)
                     THEN <<clear_heartbeat(state_file, node_id)>>
                     ELSE state_file
    /\ last' = [op |-> "clear_heartbeat", node_id |-> node_id,
                result |-> clear_heartbeat_result(state_file, node_id)]
    /\ UNCHANGED <<taskgraph, graph_counter, state_write, events_file,
                   schedVars, now, procs>>

\* HealthMonitor.clear_all_heartbeats()
ClearAllHeartbeats ==
    /\ state_file' = <<clear_all_heartbeats(state_file)>>
    /\ last' = [op |-> "clear_all_heartbeats"]
    /\ UNCHANGED <<taskgraph, graph_counter, state_write, events_file,
                   schedVars, now, procs>>

\* HealthMonitor.check_health(); its loop goes through a set of node ids,
\* in whatever order the set yields them
CheckHealth ==
    /\ Len(events_file) < MaxLog
    /\ LET report == check_health(state_file, now)
       IN  /\ \E order \in DistinctSeqs(DOMAIN report.nodes,
                                        Cardinality(DOMAIN report.nodes)) :
                 /\ Len(order) = Cardinality(DOMAIN report.nodes)
                 /\ events_file' = check_health_events(events_file, report, order)
           /\ last' = [op |-> "check_health", report |-> report]
    /\ UNCHANGED <<taskgraph, graph_counter, state_file, state_write,
                   schedVars, now, procs>>

NextHealth ==
    \/ Tick
    \/ \E node_id \in HealthNodes : RecordHeartbeat(node_id)
    \/ \E node_id \in HealthNodes : ClearHeartbeat(node_id)
    \/ ClearAllHeartbeats
    \/ CheckHealth
    \/ \E node_id \in HealthNodes : ActivateNode(node_id)

SpecHealth == InitHealth /\ [][NextHealth]_vars


C27_Elapsed(node_id) ==
    now - heartbeats_of(_load_state(state_file))[node_id].timestamp

C27_Warning(node_id) ==
    DEFAULT_CONFIGS[_get_node_tier(node_id)].warning_threshold_sec

C27_Timeout(node_id) ==
    DEFAULT_CONFIGS[_get_node_tier(node_id)].timeout_threshold_sec

\* C27: check_health() reports exactly the nodes that are active or have a
\* heartbeat record; with elapsed = now - last heartbeat and the thresholds
\* of the node's tier a node is healthy iff elapsed <= warning, stalled iff
\* warning < elapsed <= timeout, timeout iff elapsed > timeout, and unknown
\* iff it has no heartbeat record; the three counts of the report are the
\* numbers of healthy, stalled and timeout nodes.
C27_Classification ==
    [][(last'.op = "check_health" /\ now' = now) =>
        LET state == _load_state(state_file)
            beating == DOMAIN heartbeats_of(state)
            nodes == last'.report.nodes
            with(status) == {n \in DOMAIN nodes : nodes[n].status = status}
        IN  /\ DOMAIN nodes = beating \cup Range(state.active_nodes)
            /\ \A n \in DOMAIN nodes :
                  /\ nodes[n].status = "unknown" <=> n \notin beating
                  /\ nodes[n].status = "healthy" <=>
                        (n \in beating /\ C27_Elapsed(n) <= C27_Warning(n))
                  /\ nodes[n].status = "stalled" <=>
                        (/\ n \in beating
                         /\ C27_Warning(n) < C27_Elapsed(n)
                         /\ C27_Elapsed(n) <= C27_Timeout(n))
                  /\ nodes[n].status = "timeout" <=>
                        (n \in beating /\ C27_Elapsed(n) > C27_Timeout(n))
            /\ last'.report.healthy_count = Cardinality(with("healthy"))
            /\ last'.report.stalled_count = Cardinality(with("stalled"))
            /\ last'.report.timeout_count = Cardinality(with("timeout"))]_vars

C27_Witness ==
    /\ last.op = "check_health"
    /\ DOMAIN last.report.nodes = {"A", "body_implement"}
    /\ last.report.nodes["A"].status = "stalled"
    /\ last.report.nodes["A"].seconds_since_heartbeat = 200
    /\ last.report.nodes["body_implement"].status = "unknown"
    /\ last.report.stalled_count = 1

\* C29: every check_health() call appends, behind the events already in
\* the log, one event for each node it classifies as stalled (a stalled
\* event) or as timeout (a timeout event) and none for a healthy or unknown
\* node, and leaves state.json as it is.
C29_ReportedByEvent ==
    [][(last'.op = "check_health" /\ now' = now) =>
          LET nodes == last'.report.nodes
              added == SubSeq(events_file', Len(events_file) + 1, Len(events_file'))
              about(n) == {i \in DOMAIN added : added[i].node_id = n}
          IN  /\ state_file' = state_file
              /\ SubSeq(events_file', 1, Len(events_file)) = events_file
              /\ \A i \in DOMAIN added : added[i].node_id \in DOMAIN nodes
              /\ \A n \in DOMAIN nodes :
                    /\ nodes[n].status = "stalled" =>
                          /\ Cardinality(about(n)) = 1
                          /\ \A i \in about(n) : added[i].type = "SubagentStalled"
                    /\ nodes[n].status = "timeout" =>
                          /\ Cardinality(about(n)) = 1
                          /\ \A i \in about(n) : added[i].type = "SubagentTimeout"
                    /\ nodes[n].status \in {"healthy", "unknown"} =>
                          about(n) = {}]_vars

C29_Witness ==
    /\ last.op = "check_health"
    /\ DOMAIN last.report.nodes = {"A", "body_implement"}
    /\ last.report.nodes["A"].status = "stalled"
    /\ last.report.nodes["body_implement"].status = "timeout"
    /\ Len(events_file) = 4
    /\ events_file[3].type = "SubagentTimeout"
    /\ events_file[4].type = "SubagentStalled"


(***************************************************************************)
(* SpecHealthCli: nodes started, reporting heartbeats and finished through *)
(* the cli, with health checks in between                                  *)
(***************************************************************************)
NextHealthCli ==
    \/ CliCreateTaskgraph
    \/ \E node_id \in CliNodes : CliStartNode(node_id, None)
    \/ \E node_id \in CliNodes : CliCompleteNode(node_id)
    \/ \E node_id \in CliNodes : CliFailNode(node_id)
    \/ \E node_id \in CliNodes : taskgraph # <<>> /\ RecordHeartbeat(node_id)
    \/ Tick
    \/ taskgraph # <<>> /\ CheckHealth

SpecHealthCli == Init /\ [][NextHealthCli]_vars

\* C28: once a node has been reported done or failed through the cli no
\* heartbeat record of it remains in state.json, and a check_health()
\* reports no done or failed node as stalled or timeout.
C28_HeartbeatDeletedOnCompletion ==
    /\ (last.op \in {"complete_node", "fail_node"} /\ last.success) =>
          last.node_id \notin DOMAIN heartbeats_of(_load_state(state_file))
    /\ (last.op = "check_health" /\ taskgraph # <<>>) =>
          \A n \in DOMAIN last.report.nodes :
             StatusOf(taskgraph[1], n) \in {"done", "failed"} =>
                last.report.nodes[n].status \notin {"stalled", "timeout"}


(***************************************************************************)
(* SpecMark: mark_node_status with every field it writes.  The graph of    *)
(* this specification carries, besides the fields above, each node's       *)
(* outputs and error and the graph's updated_at.                           *)
(***************************************************************************)
EmptyOutputs == "{}"

\* instantiate_graph: outputs = {} on every node, no error key (None here),
\* created_at = updated_at = the time of the call
instantiate_graph_detail(template, new_id, timestamp) ==
    LET graph == instantiate_graph(template, new_id)
    IN [id |-> graph.id,
        status |-> graph.status,
        nodes |-> [i \in DOMAIN graph.nodes |->
                     [id |-> graph.nodes[i].id,
                      status |-> graph.nodes[i].status,
                      retry_count |-> graph.nodes[i].retry_count,
                      outputs |-> EmptyOutputs,
                      error |-> None]],
        edges |-> graph.edges,
        execution |-> graph.execution,
        updated_at |-> timestamp]

\* the assignments of mark_node_status once both validations passed:
\* status, outputs (given and status done), error (given and status failed),
\* the execution lists, updated_at
mark_node_status_commit(graph, node_id, status, outputs, error, timestamp) ==
    LET node == _get_node_by_id(graph, node_id)
        marked == mark_node_status(graph, node_id, status)
        with_outputs == IF outputs # None /\ status = "done"
                        THEN [marked EXCEPT !.nodes[node].outputs = outputs]
                        ELSE marked
        with_error == IF error # None /\ status = "failed"
                      THEN [with_outputs EXCEPT !.nodes[node].error = error]
                      ELSE with_outputs
    IN [with_error EXCEPT !.updated_at = timestamp]

\* variant: the status is validated after the node was found and written
mark_node_status_call_late_validation(graph, node_id, status, outputs, error, timestamp) ==
    IF _get_node_by_id(graph, node_id) = 0
    THEN [raised |-> TRUE, graph |-> graph]
    ELSE IF status \notin NODE_STATUS
    THEN [raised |-> TRUE,
          graph |-> [graph EXCEPT
                       !.nodes[_get_node_by_id(graph, node_id)].status = status]]
    ELSE [raised |-> FALSE,
          graph |-> mark_node_status_commit(graph, node_id, status, outputs,
                                            error, timestamp)]

\* the whole call: whether it raised, and the graph object afterwards
mark_node_status_call(graph, node_id, status, outputs, error, timestamp) ==
    IF status \notin NODE_STATUS
    THEN [raised |-> TRUE, graph |-> graph]
    ELSE IF _get_node_by_id(graph, node_id) = 0
    THEN [raised |-> TRUE, graph |-> graph]
    ELSE [raised |-> FALSE,
          graph |-> mark_node_status_commit(graph, node_id, status, outputs,
                                            error, timestamp)]

MarkTemplate ==
    Template(<<"A", "B">>, <<[from |-> "A", to |-> "B", condition |-> "on_success"]>>)

MarkNodeInputs == {"A", "B", "nonexistent"}
OutputInputs == {None, "o1"}
ErrorInputs == {None, "e1"}

InitMark ==
    /\ taskgraph = <<instantiate_graph_detail(MarkTemplate, 1, 0)>>
    /\ graph_counter = 1
    /\ state_file = <<>>
    /\ state_write = <<>>
    /\ events_file = <<>>
    /\ now = 0
    /\ procs = <<>>
    /\ InitSched
    /\ last = NoCall

\* Scheduler.mark_node_status(graph, node_id, status, outputs, error)
MarkNodeStatusCall(node_id, status, outputs, error) ==
    LET call == mark_node_status_call(taskgraph[1], node_id, status, outputs,
                                      error, now)
    IN /\ taskgraph' = <<call.graph>>
       /\ last' = [op |-> "mark_node_status", raised |-> call.raised,
                   node_id |-> node_id, status |-> status]
       /\ UNCHANGED <<graph_counter, state_file, state_write, events_file,
                      schedVars, now, procs>>

\* the last instant of the clock of SpecMark
MarkClockEnd == ClockInstants[2]

\* time passes between calls
MarkTick ==
    /\ now < MarkClockEnd
    /\ Tick

NextMark ==
    \/ \E node_id \in MarkNodeInputs, status \in StatusInputs,
          outputs \in OutputInputs, error \in ErrorInputs :
          MarkNodeStatusCall(node_id, status, outputs, error)
    \/ MarkTick

SpecMark == InitMark /\ [][NextMark]_vars

\* C30: mark_node_status called with an unknown node id or with a status
\* outside pending, running, done, failed, blocked raises and leaves the
\* whole graph as it was: every node's status, outputs and error, the
\* execution lists and updated_at.
C30_ValidateThenCommit ==
    [][(/\ last'.op = "mark_node_status"
        /\ now' = now
        /\ \/ last'.node_id \notin Range(NodeIdsOf(taskgraph[1]))
           \/ last'.status \notin {"pending", "running", "done", "failed",
                                   "blocked"})
          => /\ last'.raised
             /\ taskgraph' = taskgraph]_vars

C30_Witness ==
    /\ last.op = "mark_node_status"
    /\ last.raised
    /\ last.node_id = "A"
    /\ last.status = "invalid_status"
    /\ taskgraph[1].nodes[1].status = "done"
    /\ taskgraph[1].nodes[1].outputs = "o1"
    /\ taskgraph[1].nodes[2].error = "e1"
    /\ taskgraph[1].execution.completed_nodes = <<"A">>
    /\ taskgraph[1].updated_at < now

(***************************************************************************)
(* SpecQuery: TONGUE and BODY tasks that each declare at most one          *)
(* territory in their own name; the three admission queries are called at  *)
(* any time between add_task, start_task and complete_task.                *)
(***************************************************************************)
\* WukongScheduler.get_ready_tasks()
CallGetReadyTasks ==
    /\ LET scan == get_ready_tasks(Sched)
       IN /\ territories' = scan.territories
          /\ last' = [op |-> "get_ready_tasks", ready |-> scan.ready]
    /\ UNCHANGED <<tasks, active_by_tier, graphVars>>

AddQueryTask ==
    /\ Len(tasks) < MaxTasks
    /\ \E avatar \in AdmitAvatars, shapes \in SeqsUpTo(AdmitShapes, 1) :
          AddTask(avatar, DeclaredBy(Len(tasks) + 1, shapes), <<>>)

NextQuery ==
    \/ AddQueryTask
    \/ CanStartAny
    \/ CallGetReadyTasks
    \/ CallScheduleNextBatch
    \/ StartAny
    \/ CompleteAny

SpecQuery == Init /\ [][NextQuery]_vars

(***************************************************************************)
(* C31: can_start, get_ready_tasks and schedule_next_batch change no task  *)
(* status, no active_by_tier list and no recorded territory; and every     *)
(* recorded territory belongs to a task that is in progress.               *)
(***************************************************************************)
C31_QueriesSideEffectFree ==
    [][/\ last'.op \in {"can_start", "get_ready_tasks", "schedule_next_batch"}
            => UNCHANGED schedVars
       /\ \A key \in DOMAIN territories' :
             /\ is_task(SchedNext, territories'[key].owner)
             /\ get_task(SchedNext, territories'[key].owner).status = "IN_PROGRESS"]_vars

(***************************************************************************)
(* C32: after any sequence of add_task / start_task / complete_task,       *)
(* active_by_tier[tier] holds exactly the ids of the tasks of that tier    *)
(* whose status is IN_PROGRESS, each once.                                 *)
(***************************************************************************)
C32_ActiveMirrorsStatus ==
    \A tier \in Tiers :
        /\ Range(active_by_tier[tier]) = InProgress(Sched, tier)
        /\ NoRepeats(active_by_tier[tier])

(***************************************************************************)
(* SpecJoint: the cheap tier shared by EYE and NOSE tasks (NOSE admits 5   *)
(* of its own, the tier 10).  One task more than NOSE admits is queued;    *)
(* the caller asks for a batch and starts the tasks of the batch one after *)
(* another in batch order; tasks in progress complete or fail.             *)
(***************************************************************************)
JointSize == AVATAR_CONFIG.NOSE.max_concurrent + 1

JointAvatars == {"EYE", "NOSE"}

AddJointTask ==
    /\ Len(tasks) < JointSize
    /\ \E avatar \in JointAvatars : AddTask(avatar, <<>>, <<>>)

\* start_task on the next task of the batch just returned
StartBatchTask ==
    /\ last.op \in {"schedule_next_batch", "start_batch_task"}
    /\ last.batch # <<>>
    /\ LET task_id == Head(last.batch)
       IN /\ SetSched(start_task(Sched, task_id))
          /\ last' = [op |-> "start_batch_task", task_id |-> task_id,
                      result |-> can_start(Sched, get_task(Sched, task_id)).ok,
                      batch |-> Tail(last.batch)]
    /\ UNCHANGED graphVars

NextJoint ==
    \/ AddJointTask
    \/ CallScheduleNextBatch
    \/ StartBatchTask
    \/ CompleteRunning

SpecJoint == Init /\ [][NextJoint]_vars

(***************************************************************************)
(* C33: start_task succeeds on every task of a batch returned by           *)
(* schedule_next_batch when the tasks are started one after another in     *)
(* batch order.                                                            *)
(***************************************************************************)
C33_BatchJointlyAdmissible ==
    [][last'.op = "start_batch_task" => last'.result]_vars

(***************************************************************************)
(* C34: in every snapshot reached through start_graph, activate_node,      *)
(* complete_node, fail_node, record_retry and prepare_for_resume, no node  *)
(* id is in more than one of active_nodes, completed_nodes, failed_nodes.  *)
(***************************************************************************)
C34_SetsDisjoint ==
    LET state == get_state(state_file)
    IN /\ Range(state.active_nodes) \cap Range(state.completed_nodes) = {}
       /\ Range(state.active_nodes) \cap Range(state.failed_nodes) = {}
       /\ Range(state.completed_nodes) \cap Range(state.failed_nodes) = {}

(***************************************************************************)
(* C35: start_graph(g, s) sets current_graph_id = g, session_id = s,       *)
(* status running, phase 0, empties the three node lists, and leaves no    *)
(* per-node data of an earlier run: get_retry_count(n) is 0 for every node *)
(* right after it.                                                         *)
(***************************************************************************)
C35_StartGraphClean ==
    [][(last'.op = "start_graph" /\ ~last'.raised) =>
          LET state == get_state(state_file')
          IN /\ state.current_graph_id = StoreGraphId
             /\ state.session_id = "s1"
             /\ state.status = "running"
             /\ state.current_phase = 0
             /\ state.active_nodes = <<>>
             /\ state.completed_nodes = <<>>
             /\ state.failed_nodes = <<>>
             /\ \A n \in StoreNodes : get_retry_count(state_file', n) = 0]_vars

(***************************************************************************)
(* SpecRace: two processes on one state.json.  The monitor process runs    *)
(* HealthMonitor.record_heartbeat(n): _load_state, _save_state, then the   *)
(* progress event.  The store process runs StateManager.activate_node(m)   *)
(* or complete_node(m): its own get_state, the get_state of update_state,  *)
(* then set_state.  Each os.replace is one step; the steps of the two      *)
(* processes interleave freely.  The run starts after start_graph and      *)
(* activate_node("A").                                                     *)
(***************************************************************************)
IdleMonitor == [pc |-> "idle", node_id |-> None, read |-> <<>>]

IdleStore == [pc |-> "idle", op |-> None, node_id |-> None, kwargs |-> <<>>,
              read |-> <<>>]

\* the keyword arguments activate_node / complete_node hand to update_state,
\* computed from the state the call read itself
node_call_kwargs(op, file, node_id) ==
    IF op = "activate_node"
    THEN [active_nodes |-> activate_node(file, node_id).active_nodes]
    ELSE [active_nodes |-> complete_node(file, node_id).active_nodes,
          completed_nodes |-> complete_node(file, node_id).completed_nodes]

InitRace ==
    /\ taskgraph = <<>>
    /\ graph_counter = 0
    /\ state_file = <<activate_node(<<start_graph(<<>>, StoreGraphId, "s1")>>, "A")>>
    /\ state_write = <<>>
    /\ events_file = <<>>
    /\ now = 0
    /\ procs = [monitor |-> IdleMonitor, store |-> IdleStore]
    /\ InitSched
    /\ last = NoCall

\* record_heartbeat(node_id): state = self._load_state()
MonitorLoad(node_id) ==
    /\ procs.monitor.pc = "idle"
    /\ procs' = [procs EXCEPT !.monitor = [pc |-> "loaded", node_id |-> node_id,
                                           read |-> state_file]]
    /\ last' = [op |-> "record_heartbeat", step |-> "_load_state"]
    /\ UNCHANGED <<taskgraph, graph_counter, state_file, state_write,
                   events_file, schedVars, now>>

\* record_heartbeat: self._save_state(state), built on what was loaded
MonitorSave ==
    /\ procs.monitor.pc = "loaded"
    /\ state_file' = <<record_heartbeat(procs.monitor.read,
                                        procs.monitor.node_id, now)>>
    /\ procs' = [procs EXCEPT !.monitor.pc = "saved"]
    /\ last' = [op |-> "record_heartbeat", step |-> "_save_state"]
    /\ UNCHANGED <<taskgraph, graph_counter, state_write, events_file,
                   schedVars, now>>

\* record_heartbeat: self._write_event("SubagentProgress", ...)
MonitorEvent ==
    /\ procs.monitor.pc = "saved"
    /\ events_file' = health_write_event(events_file, "SubagentProgress",
                                         [node_id |-> procs.monitor.node_id],
                                         procs.monitor.node_id)
    /\ procs' = [procs EXCEPT !.monitor.pc = "done"]
    /\ last' = [op |-> "record_heartbeat", step |-> "_write_event"]
    /\ UNCHANGED <<taskgraph, graph_counter, state_file, state_write,
                   schedVars, now>>

\* activate_node / complete_node: state = self.get_state() and the lists
StoreRead(op, node_id) ==
    /\ procs.store.pc = "idle"
    /\ procs' = [procs EXCEPT !.store =
                    [pc |-> "update_state", op |-> op, node_id |-> node_id,
                     kwargs |-> node_call_kwargs(op, state_file, node_id),
                     read |-> <<>>]]
    /\ last' = [op |-> op, step |-> "get_state"]
    /\ UNCHANGED <<taskgraph, graph_counter, state_file, state_write,
                   events_file, schedVars, now>>

\* update_state: state = self.get_state()
StoreReadAgain ==
    /\ procs.store.pc = "update_state"
    /\ procs' = [procs EXCEPT !.store.pc = "set_state",
                              !.store.read = state_file]
    /\ last' = [op |-> procs.store.op, step |-> "update_state"]
    /\ UNCHANGED <<taskgraph, graph_counter, state_file, state_write,
                   events_file, schedVars, now>>

\* update_state: state.update(kwargs); self.set_state(state)
StoreReplace ==
    /\ procs.store.pc = "set_state"
    /\ state_file' = <<merge_state(get_state(procs.store.read),
                                   procs.store.kwargs)>>
    /\ procs' = [procs EXCEPT !.store.pc = "done"]
    /\ last' = [op |-> procs.store.op, step |-> "set_state"]
    /\ UNCHANGED <<taskgraph, graph_counter, state_write, events_file,
                   schedVars, now>>

NextRace ==
    \/ \E node_id \in StoreNodes : MonitorLoad(node_id)
    \/ MonitorSave
    \/ MonitorEvent
    \/ \E op \in {"activate_node", "complete_node"}, node_id \in StoreNodes :
          StoreRead(op, node_id)
    \/ StoreReadAgain
    \/ StoreReplace

SpecRace == InitRace /\ [][NextRace]_vars

(***************************************************************************)
(* C36: when record_heartbeat(n) in one process and complete_node(m) or    *)
(* activate_node(m) in another have both returned, whatever the order of   *)
(* their reads and replaces, state.json holds n's heartbeat record and m's *)
(* change of the node lists.                                               *)
(***************************************************************************)
C36_NoLostUpdate ==
    (procs.monitor.pc = "done" /\ procs.store.pc = "done") =>
        LET state == get_state(state_file)
            m == procs.store.node_id
        IN /\ procs.monitor.node_id \in DOMAIN heartbeats_of(_load_state(state_file))
           /\ procs.store.op = "activate_node" => m \in Range(state.active_nodes)
           /\ procs.store.op = "complete_node" =>
                 /\ m \in Range(state.completed_nodes)
                 /\ m \notin Range(state.active_nodes)

(***************************************************************************)
(* SpecLog: one events.jsonl written by the EventBus and by the Health     *)
(* Monitor (heartbeats of node A, health checks as time passes)            *)
(***************************************************************************)
NextLog ==
    \/ \E event_type \in EventTypeInputs, source \in EventSourceInputs :
          WriteEvent(event_type, None, source)
    \/ RecordHeartbeat("A")
    \/ Tick
    \/ CheckHealth
    \/ ReadEvents

SpecLog == InitHealth /\ [][NextLog]_vars

(***************************************************************************)
(* C37: every record in the event log, written by write_event or by the    *)
(* Health Monitor (heartbeat, stalled and timeout reports), has a type in  *)
(* EVENT_TYPES and a source in EVENT_SOURCES, and read_events() returns    *)
(* it.                                                                     *)
(***************************************************************************)
C37_LogWellTyped ==
    /\ \A i \in DOMAIN events_file :
          /\ events_file[i].type \in EVENT_TYPES
          /\ events_file[i].source \in EVENT_SOURCES
    /\ ~read_events(events_file).raised
    /\ read_events(events_file).events = events_file

(***************************************************************************)
(* SpecTorn: the EventBus on a log in which a write can be interrupted     *)
(* after part of the record's text reached the file                        *)
(***************************************************************************)
\* write_event dies inside f.write: text without a newline ends the file
TornWrite ==
    /\ Len(events_file) < MaxLog
    /\ events_file' = IF EndsTorn(events_file) THEN events_file
                      ELSE Append(events_file, TornRecord)
    /\ last' = [op |-> "torn_write"]
    /\ UNCHANGED <<taskgraph, graph_counter, state_file, state_write,
                   schedVars, now, procs>>

NextTorn ==
    \/ \E event_type \in EventTypeInputs, source \in EventSourceInputs :
          WriteEvent(event_type, None, source)
    \/ TornWrite
    \/ ReadEvents

SpecTorn == Init /\ [][NextTorn]_vars

(***************************************************************************)
(* C38: an event whose write_event returned an id is returned by           *)
(* read_events(), also when an earlier interrupted write left a partial    *)
(* record without a newline at the end of the log.                         *)
(***************************************************************************)
C38_TornAppendCostsNothing ==
    [][(last'.op = "write_event" /\ ~last'.raised) =>
          /\ ~read_events(events_file').raised
          /\ \E i \in DOMAIN read_events(events_file').events :
                read_events(events_file').events[i].event_id = last'.event_id]_vars

(***************************************************************************)
(* SpecCompletion: a graph document over any of the node lists, the empty  *)
(* one included, with any node statuses, asked for its status and for its  *)
(* completion                                                              *)
(***************************************************************************)
InitCompletion ==
    /\ \E node_ids \in OrderedNodeLists :
          \E statuses \in [DOMAIN node_ids -> NODE_STATUS] :
              taskgraph = <<WithStatuses(instantiate_graph(Template(node_ids, <<>>), 1),
                                         statuses)>>
    /\ graph_counter = 1
    /\ state_file = <<>>
    /\ state_write = <<>>
    /\ now = 0
    /\ procs = <<>>
    /\ events_file = <<>>
    /\ InitSched
    /\ last = NoCall

NextCompletion == CallGetGraphStatus \/ CallIsGraphComplete

SpecCompletion == InitCompletion /\ [][NextCompletion]_vars

(***************************************************************************)
(* C39: for every graph and every assignment of node statuses,             *)
(* get_graph_status(graph) is completed exactly when is_graph_complete     *)
(* (graph) is true.                                                        *)
(***************************************************************************)
C39_CompletionPredicatesAgree ==
    /\ last.op = "get_graph_status" =>
          (last.result = "completed" <=> is_graph_complete(taskgraph[1]))
    /\ last.op = "is_graph_complete" =>
          (last.result <=> get_graph_status(taskgraph[1]) = "completed")

(***************************************************************************)
(* SpecProgress: a run that only goes forward.  Any acyclic graph over the *)
(* node ids whose edges are on_success or always is instantiated; a node   *)
(* that get_ready_nodes returns is marked running, a running node is       *)
(* marked done, and neither is put off for ever.                           *)
(***************************************************************************)
ProgressConditions == {"on_success", "always"}

InitProgress ==
    /\ \E node_ids \in OrderedNodeLists :
          \E edges \in SeqsUpTo(EdgesOver(Range(node_ids), ProgressConditions),
                                MaxReadyEdges) :
              /\ ~HasCycle(Template(node_ids, edges))
              /\ taskgraph = <<instantiate_graph(Template(node_ids, edges), 1)>>
    /\ graph_counter = 1
    /\ state_file = <<>>
    /\ state_write = <<>>
    /\ now = 0
    /\ procs = <<>>
    /\ events_file = <<>>
    /\ InitSched
    /\ last = NoCall

\* a node returned by get_ready_nodes is marked running
MarkReadyRunning ==
    \E node_id \in Range(get_ready_nodes(taskgraph[1])) :
        MarkNodeStatus(node_id, "running")

\* a running node is marked done
MarkRunningDone ==
    \E node_id \in IdsWithStatus(taskgraph[1], "running") :
        MarkNodeStatus(node_id, "done")

NextProgress == MarkReadyRunning \/ MarkRunningDone

SpecProgress ==
    /\ InitProgress
    /\ [][NextProgress]_vars
    /\ WF_vars(MarkReadyRunning)
    /\ WF_vars(MarkRunningDone)

(***************************************************************************)
(* C40: in such a run, whenever a node is pending and none is running      *)
(* get_ready_nodes returns at least one node, and eventually every node is *)
(* done and is_graph_complete is true.                                     *)
(***************************************************************************)
C40_ReadyWhenIdle ==
    (/\ IdsWithStatus(taskgraph[1], "pending") # {}
     /\ IdsWithStatus(taskgraph[1], "running") = {})
        => get_ready_nodes(taskgraph[1]) # <<>>

C40_AllDone ==
    /\ \A i \in DOMAIN taskgraph[1].nodes : taskgraph[1].nodes[i].status = "done"
    /\ is_graph_complete(taskgraph[1])

C40_Progress == [](C40_ReadyWhenIdle) /\ <>(C40_AllDone)

\* three nodes, C after A by an always edge and after B by an on_success
\* edge, all done
C40_Witness ==
    /\ Len(taskgraph[1].nodes) = 3
    /\ [from |-> "A", to |-> "C", condition |-> "always"] \in Range(taskgraph[1].edges)
    /\ [from |-> "B", to |-> "C", condition |-> "on_success"] \in Range(taskgraph[1].edges)
    /\ C40_AllDone
    /\ taskgraph[1].execution.completed_nodes[3] = "C"

=============================================================================
